---- MODULE Spec2Model ----
(***************************************************************************)
(* Intel NPU userspace driver (redox-EVA, src/drive): the boot sequence    *)
(* of boot.rs against the register map of hw_mtl.rs.                       *)
(*                                                                         *)
(* A 32-bit register word is a pair <<upper 16 bits, lower 16 bits>>, a    *)
(* 64-bit physical address a 4-tuple of 16-bit halves, most significant    *)
(* first.  Time is in milliseconds.                                        *)
(***************************************************************************)
EXTENDS Integers, Sequences, FiniteSets, TLC

(***************************************************************************)
(* Bounds of the model.                                                    *)
(***************************************************************************)
\* thread::sleep blocks for at least the requested time: a sleep may overrun
\* by up to MaxJitter quanta of SleepQuantumMs.
MaxJitter == 1
\* The model's clock saturates here (never reached by the driver's loop).
ClockCap == 7000

(***************************************************************************)
(* hw_mtl.rs: register map, status codes, timing constants.                *)
(***************************************************************************)
BUTTRESS_BASE == 0
BUTTRESS_GLOBAL_INT_MASK == BUTTRESS_BASE + \h0020
BUTTRESS_GLOBAL_INT_STS == BUTTRESS_BASE + \h0024
BUTTRESS_TILE_FUSE == BUTTRESS_BASE + \h0050
BUTTRESS_VPU_STATUS == BUTTRESS_BASE + \h0114
BUTTRESS_VPU_D0I3_CONTROL == BUTTRESS_BASE + \h0118
BUTTRESS_VPU_IP_RESET == BUTTRESS_BASE + \h0160

IPC_BASE == \h73000
IPC_HOST_2_DEVICE_DRBL == IPC_BASE + \h0000
IPC_INT_MASK == IPC_BASE + \h0030
IPC_DRBL_TRIGGER == << \h8000, \h0000 >>

HOST_SS_BASE == \h80000
HOST_SS_GEN_CTRL == HOST_SS_BASE + \h0000
HOST_SS_CLK_EN == HOST_SS_BASE + \h0004
HOST_SS_CPR_RST_SET == HOST_SS_BASE + \h0010
HOST_SS_CPR_RST_CLR == HOST_SS_BASE + \h0014
HOST_SS_LOADING_ADDR_LO == HOST_SS_BASE + \h0040
HOST_SS_LOADING_ADDR_HI == HOST_SS_BASE + \h0044
HOST_SS_FW_STATUS == HOST_SS_BASE + \h0060
HOST_SS_FW_VERSION == HOST_SS_BASE + \h0064
HOST_SS_BOOT_COUNT == HOST_SS_BASE + \h0068

FW_STATUS_MASK == << \hFFFF, \h0000 >>
FW_STATUS_READY == << \hF00D, \h0000 >>
FW_STATUS_DEAD == << \hDEAD, \h0000 >>
FW_STATUS_CAFE == << \hCAFE, \h0000 >>
FW_STATUS_BEEF == << \hBEEF, \h0000 >>
FW_STATUS_OBAD == << \h0BAD, \h0000 >>
FW_STATUS_FACE == << \hFACE, \h0000 >>

POWER_UP_TIMEOUT_MS == 2000
FW_BOOT_TIMEOUT_MS == 5000
POLL_INTERVAL_MS == 10
NUDGE_DELAY_MS == 300
NUDGE_MAX_RETRIES == 5

(***************************************************************************)
(* 32-bit words.                                                           *)
(***************************************************************************)
Word0 == << 0, 0 >>
Word1 == << 0, 1 >>
WordOnes == << \hFFFF, \hFFFF >>

RECURSIVE BitAnd16(_, _, _)
BitAnd16(a, b, n) ==
    IF n = 0 THEN 0
    ELSE (IF a % 2 = 1 /\ b % 2 = 1 THEN 1 ELSE 0)
         + 2 * BitAnd16(a \div 2, b \div 2, n - 1)

\* u32 & u32
And32(x, y) == << BitAnd16(x[1], y[1], 16), BitAnd16(x[2], y[2], 16) >>

\* u32 as a word from a small natural (u32 counters of the driver)
WordOf(n) == << n \div 65536, n % 65536 >>

Min(a, b) == IF a <= b THEN a ELSE b

(***************************************************************************)
(* What the device and the platform may present.                           *)
(***************************************************************************)
\* Values of the firmware status register: the seven named codes, an
\* unknown code, an uninitialised code with low bits set, READY with low bits.
StatusValues ==
    { Word0, FW_STATUS_READY, FW_STATUS_DEAD, FW_STATUS_CAFE, FW_STATUS_BEEF,
      FW_STATUS_OBAD, FW_STATUS_FACE, << \h1234, \h0000 >>, << \h0000, \hABCD >>,
      << \hF00D, \h0001 >> }

\* Values of the firmware version register.
VersionValues == { << \h0102, \h0304 >>, Word0 }

\* Values of the buttress status register at the end of the power poll.
ButtressValues == { Word0, Word1 }

\* Page-aligned physical addresses of the firmware DMA buffer.
PhysAddrs == { << 0, 1, \h2345, \h6000 >>, << 0, 0, \h7FFF, \h1000 >> }

VARIABLES
    pc,            \* position of BootSequence::execute
    mmio_writes,   \* every write32 issued so far, in order: <<offset, word>>
    fw_buffer,     \* the firmware DmaBuffer: "none", "alive", "returned", "released"
    fw_phys,       \* its phys_addr
    readback,      \* <<readback_lo, readback_hi>> of set_firmware_address
    buttress_ok,   \* poll_until on BUTTRESS_VPU_STATUS returned Ok
    nudge_count,   \* trigger_and_wait's nudge_count
    elapsed,       \* boot_start.elapsed() in ms
    raw_status,    \* the status word of the latest status poll
    cafe_polls,    \* number of status polls that observed 0xCAFE
    final_read,    \* the register read made on the returning path
    diag_dumps,    \* calls of dump_diagnostics
    slept_ms,      \* the thread::sleep made by the latest step of trigger_and_wait, 0 if none
    result         \* what execute returned: [kind, data]

bootVars ==
    << pc, mmio_writes, fw_buffer, fw_phys, readback, buttress_ok, nudge_count,
       elapsed, raw_status, cafe_polls, final_read, diag_dumps, slept_ms, result >>

(***************************************************************************)
(* inference.rs: the state of one CommandQueue and what it did.            *)
(***************************************************************************)
VARIABLES
    queue,            \* CommandQueue::new: "unborn", "live", "failed", "panicked"
    capacity,         \* CommandQueue.capacity (usize)
    write_idx,        \* CommandQueue.write_idx
    next_job_id,      \* CommandQueue.next_job_id (u32)
    ring_size,        \* CommandQueue.ring.size (usize)
    ring,             \* descriptors in the ring, by byte offset
    new_result,       \* what CommandQueue::new returned
    submits,          \* one record per call of submit, in order
    trace,            \* ring writes and MMIO writes made by submit, in order
    overflow_checks,  \* the build panics on integer overflow (else it wraps)
    fresh             \* every submit since CommandQueue::new is in submits

queueVars ==
    << queue, capacity, write_idx, next_job_id, ring_size, ring, new_result,
       submits, trace, overflow_checks, fresh >>

(***************************************************************************)
(* main.rs: run_driver, its resource-owning locals and their release.      *)
(***************************************************************************)
VARIABLES
    step,           \* position of run_driver
    locals,         \* resource-owning locals declared so far, in order
    dropped,        \* destructors run so far, in order
    driver_result,  \* what run_driver returned
    boot_result,    \* outcome of boot.execute inside run_driver
    state,          \* NpuState of the latest monitor.poll()
    loop_count,     \* iterations of the main loop completed
    diag_mode,      \* --diag
    test_mode,      \* --test
    target_redox    \* built for Redox (else the development host)

driverVars ==
    << step, locals, dropped, driver_result, boot_result, state, loop_count,
       diag_mode, test_mode, target_redox >>

(***************************************************************************)
(* dma.rs: one call of load_firmware.                                      *)
(***************************************************************************)
VARIABLES
    fw_file,        \* the file at the path: [readable, len, head]
    fw_load         \* what load_firmware returned, and the buffer it filled

firmwareVars == << fw_file, fw_load >>

NotLoaded ==
    [ kind |-> "none", actual |-> 0, max |-> 0, allocated |-> FALSE,
      size |-> 0, offset |-> 0, len |-> 0 ]

\* load_firmware has not been called.
FirmwareAbsent ==
    /\ fw_file = [ readable |-> FALSE, len |-> 0, head |-> << >> ]
    /\ fw_load = NotLoaded

(***************************************************************************)
(* mmio.rs: one MmioRegion, its registers, and one call of poll_until.     *)
(***************************************************************************)
VARIABLES
    mmio_size,      \* MmioRegion.size, a usize
    mmio_regs,      \* the mapped registers, one u32 per four bytes
    mmio_call,      \* the last call of read32 or write32, and what it did
    poll_pc,        \* "idle", or "polling" inside the loop of poll_until
    poll_args,      \* offset, condition, timeout and interval of the call
    poll_elapsed,   \* start.elapsed() when the loop body begins
    poll_read,      \* the reads of the call: how many, the last value, when
    poll_result     \* what poll_until returned

mmioVars ==
    << mmio_size, mmio_regs, mmio_call, poll_pc, poll_args, poll_elapsed,
       poll_read, poll_result >>

NoCall ==
    [ op |-> "none", offset |-> << 0, 0, 0, 0 >>, value |-> Word0,
      ret |-> Word0, accessed |-> FALSE, before |-> << >> ]

NoPoll ==
    [ offset |-> << 0, 0, 0, 0 >>, condition |-> {}, timeout |-> 0,
      interval |-> 0 ]

NothingRead == [ count |-> 0, value |-> Word0, at |-> 0, checked_at |-> 0 ]

NotReturned == [ kind |-> "none", value |-> Word0 ]

\* No MmioRegion has been created.
MmioAbsent ==
    /\ mmio_size = << 0, 0, 0, 0 >>
    /\ mmio_regs = << >>
    /\ mmio_call = NoCall
    /\ poll_pc = "idle"
    /\ poll_args = NoPoll
    /\ poll_elapsed = 0
    /\ poll_read = NothingRead
    /\ poll_result = NotReturned

(***************************************************************************)
(* dma.rs: one DmaBuffer and the calls of write_bytes and read_bytes.      *)
(***************************************************************************)
VARIABLES
    dma_size,       \* DmaBuffer.size, a usize
    dma_bytes,      \* the buffer: the bytes that are not zero, by index
    dma_call,       \* the last call of write_bytes or read_bytes
    dma_prev        \* the call before it

dmaVars == << dma_size, dma_bytes, dma_call, dma_prev >>

NoDmaCall ==
    [ op |-> "none", offset |-> << 0, 0, 0, 0 >>, len |-> 0, data |-> << >>,
      kind |-> "none", err |-> << >>, ret |-> << >>, before |-> << >> ]

\* No DmaBuffer is under study.
DmaAbsent ==
    /\ dma_size = << 0, 0, 0, 0 >>
    /\ dma_bytes = << >>
    /\ dma_call = NoDmaCall
    /\ dma_prev = NoDmaCall

(***************************************************************************)
(* status.rs: one StatusMonitor.                                           *)
(***************************************************************************)
VARIABLES
    last_state,     \* StatusMonitor.last_state
    state_changes,  \* StatusMonitor.state_changes, without the timestamps
    mon_poll,       \* the latest poll: the word read, the state returned,
                    \* the log before it
    mon_polls,      \* calls of poll so far
    mon_access      \* the register accesses the monitor has made

monitorVars == << last_state, state_changes, mon_poll, mon_polls, mon_access >>

PoweredOff == [ kind |-> "PoweredOff", raw |-> Word0 ]

NoPollYet == [ raw |-> Word0, returned |-> PoweredOff, before |-> << >> ]

\* No StatusMonitor has been created.
MonitorAbsent ==
    /\ last_state = PoweredOff
    /\ state_changes = << >>
    /\ mon_poll = NoPollYet
    /\ mon_polls = 0
    /\ mon_access = {}

(***************************************************************************)
(* scheme.rs: one NpuScheme.                                               *)
(***************************************************************************)
VARIABLES
    handles,        \* NpuScheme.handles: handle id -> NpuHandle
    next_id,        \* NpuScheme.next_id
    scheme_call,    \* the last call of the Scheme trait and what it returned
    closed,         \* the ids close has removed
    written         \* the ids on which a write was accepted

schemeVars == << handles, next_id, scheme_call, closed, written >>

NoAnswer == [ kind |-> "none", val |-> 0, text |-> "", job |-> << >> ]

NoSchemeCall ==
    [ op |-> "none", id |-> 0, path |-> "", uid |-> 0, len |-> 0,
      result |-> NoAnswer, before |-> << >>, next_before |-> 0,
      polls_before |-> 0 ]

\* No NpuScheme has been created.
SchemeAbsent ==
    /\ handles = << >>
    /\ next_id = 0
    /\ scheme_call = NoSchemeCall
    /\ closed = {}
    /\ written = {}

(***************************************************************************)
(* pci.rs: one call of discover_npu on Redox.                              *)
(***************************************************************************)
VARIABLES
    pci_listing,    \* whether read_dir("pci:") succeeds
    pci_bus,        \* the entries of pci: in enumeration order
    pci_result,     \* what discover_redox returned
    pci_writes      \* the writes made to configuration files

pciVars == << pci_listing, pci_bus, pci_result, pci_writes >>

NotDiscovered == [ kind |-> "none", index |-> 0, name |-> "" ]

\* discover_npu has not been called.
PciAbsent ==
    /\ pci_listing = TRUE
    /\ pci_bus = << >>
    /\ pci_result = NotDiscovered
    /\ pci_writes = << >>

(***************************************************************************)
(* inference.rs: one CommandDescriptor built and serialised.               *)
(***************************************************************************)
VARIABLES
    desc_args,      \* job id and the three buffers given to new_inference
    desc_made,      \* "none", or "Some" / "None" as new_inference returned
    desc_bytes      \* to_bytes of the descriptor

descVars == << desc_args, desc_made, desc_bytes >>

NoBuffer == [ phys |-> << 0, 0, 0, 0 >>, size |-> << 0, 0, 0, 0 >> ]

\* No descriptor is under study.
DescAbsent ==
    /\ desc_args = [ job_id |-> Word0, model |-> NoBuffer, input |-> NoBuffer,
                     output |-> NoBuffer ]
    /\ desc_made = "none"
    /\ desc_bytes = << >>

(***************************************************************************)
(* eva-daemon vad.rs: one voice activity detector.                         *)
(***************************************************************************)
VARIABLES
    current_silence,    \* VAD.current_silence
    current_speech,     \* VAD.current_speech
    vad_frames,         \* frames given to is_speech since VAD::new
    vad_only_silent,    \* every frame so far was silent and reset was not called
    vad_returned        \* what the last is_speech returned, "none" before it

vadVars == << current_silence, current_speech, vad_frames, vad_only_silent,
              vad_returned >>

\* No detector is under study.
VadAbsent ==
    /\ current_silence = 0
    /\ current_speech = 0
    /\ vad_frames = 0
    /\ vad_only_silent = FALSE
    /\ vad_returned = "absent"

nonBootVars == << queueVars, driverVars, firmwareVars, mmioVars, dmaVars, monitorVars, schemeVars, pciVars, descVars, vadVars >>
nonQueueVars == << bootVars, driverVars, firmwareVars, mmioVars, dmaVars, monitorVars, schemeVars, pciVars, descVars, vadVars >>
nonDriverVars == << bootVars, queueVars, firmwareVars, mmioVars, dmaVars, monitorVars, schemeVars, pciVars, descVars, vadVars >>
nonFirmwareVars == << bootVars, queueVars, driverVars, mmioVars, dmaVars, monitorVars, schemeVars, pciVars, descVars, vadVars >>
nonMmioVars == << bootVars, queueVars, driverVars, firmwareVars, dmaVars, monitorVars, schemeVars, pciVars, descVars, vadVars >>
nonDmaVars == << bootVars, queueVars, driverVars, firmwareVars, mmioVars, monitorVars, schemeVars, pciVars, descVars, vadVars >>
nonMonitorVars == << bootVars, queueVars, driverVars, firmwareVars, mmioVars, dmaVars, schemeVars, pciVars, descVars, vadVars >>
nonSchemeVars == << bootVars, queueVars, driverVars, firmwareVars, mmioVars, dmaVars, monitorVars, pciVars, descVars, vadVars >>
nonSchemeMonitorVars == << bootVars, queueVars, driverVars, firmwareVars, mmioVars, dmaVars, pciVars, descVars, vadVars >>
nonPciVars == << bootVars, queueVars, driverVars, firmwareVars, mmioVars, dmaVars, monitorVars, schemeVars, descVars, vadVars >>
nonDescVars == << bootVars, queueVars, driverVars, firmwareVars, mmioVars, dmaVars, monitorVars, schemeVars, pciVars, vadVars >>
nonVadVars == << bootVars, queueVars, driverVars, firmwareVars, mmioVars, dmaVars, monitorVars, schemeVars, pciVars, descVars >>
vars == << bootVars, queueVars, driverVars, firmwareVars, mmioVars, dmaVars, monitorVars, schemeVars, pciVars, descVars, vadVars >>

\* run_driver has not started.
DriverStart ==
    /\ step = "discover_npu"
    /\ locals = << >>
    /\ dropped = << >>
    /\ driver_result = "none"
    /\ boot_result = "none"
    /\ state = "PoweredOff"
    /\ loop_count = 0

DriverAbsent ==
    DriverStart /\ diag_mode = FALSE /\ test_mode = FALSE /\ target_redox = TRUE

\* usize on the 64-bit target: four 16-bit limbs, most significant first.
UsizeOf(n) == << 0, 0, n \div 65536, n % 65536 >>
UsizeMax == << 65535, 65535, 65535, 65535 >>

NoDescriptor == [ job_id |-> Word0 ]

\* CommandQueue::new has not been called.
QueueUnborn ==
    /\ queue = "unborn"
    /\ capacity = UsizeOf(0)
    /\ write_idx = 0
    /\ next_job_id = Word0
    /\ ring_size = UsizeOf(0)
    /\ ring = [ o \in {} |-> NoDescriptor ]
    /\ new_result = [ kind |-> "none", capacity |-> UsizeOf(0) ]
    /\ submits = << >>
    /\ trace = << >>
    /\ fresh = TRUE

\* The boot sequence runs before any CommandQueue exists.
QueueAbsent == QueueUnborn /\ overflow_checks = FALSE

(***************************************************************************)
(* dma.rs: the halves of the physical address.                             *)
(***************************************************************************)
phys_lo(p) == << p[3], p[4] >>
phys_hi(p) == << p[1], p[2] >>

(***************************************************************************)
(* boot.rs: the register writes of each phase.                             *)
(***************************************************************************)
\* Mutant: reset released before the clocks are enabled.
PowerUpWritesResetFirst ==
    << << BUTTRESS_VPU_D0I3_CONTROL, Word0 >>,
       << HOST_SS_CPR_RST_CLR, Word1 >>,
       << HOST_SS_CLK_EN, Word1 >> >>

PowerUpWrites ==
    << << BUTTRESS_VPU_D0I3_CONTROL, Word0 >>,
       << HOST_SS_CLK_EN, Word1 >>,
       << HOST_SS_CPR_RST_CLR, Word1 >> >>

AddressWrites(p) ==
    << << HOST_SS_LOADING_ADDR_LO, phys_lo(p) >>,
       << HOST_SS_LOADING_ADDR_HI, phys_hi(p) >> >>

\* Mutant: only the low half is compared.
ReadbackMismatchLoOnly(lo, hi, p) == lo # phys_lo(p)

ReadbackMismatch(lo, hi, p) == lo # phys_lo(p) \/ hi # phys_hi(p)

UnmaskWrites ==
    << << BUTTRESS_GLOBAL_INT_MASK, Word0 >>,
       << IPC_INT_MASK, Word0 >> >>

DoorbellWrite == << IPC_HOST_2_DEVICE_DRBL, IPC_DRBL_TRIGGER >>

\* Mutant: the doorbell is rung before the interrupts are unmasked.
TriggerWritesRingFirst == << DoorbellWrite >> \o UnmaskWrites

\* trigger_and_wait before the loop: unmask both, then ring.
TriggerWrites == UnmaskWrites \o << DoorbellWrite >>

\* Mutant: a nudge that does not re-ring the doorbell.
NudgeWritesNoRing == << >>

\* A nudge re-rings the doorbell.
NudgeWrites == << DoorbellWrite >>

\* Mutant: the deadline is never found expired.
DeadlineNeverExpired(e) == FALSE

DeadlineExpired(e) == e >= FW_BOOT_TIMEOUT_MS

StatusCode(raw) == And32(raw, FW_STATUS_MASK)

\* The sleep between the first doorbell ring and the start of the deadline.
InitialDelayMs == NUDGE_DELAY_MS

\* Mutant: the back-off starts at NUDGE_DELAY_MS for the first nudge.
NudgeSleepMsFromOne(n) == NUDGE_DELAY_MS * n

\* Mutant: no back-off, every nudge sleeps NUDGE_DELAY_MS.
NudgeSleepMsNoBackoff(n) == NUDGE_DELAY_MS

NudgeSleepMs(n) == NUDGE_DELAY_MS * (n + 1)

InProgressSleepMs == POLL_INTERVAL_MS * 10

IdleSleepMs(raw) ==
    IF raw = Word0 THEN POLL_INTERVAL_MS * 5 ELSE POLL_INTERVAL_MS * 10

\* The clock of the model advances in quanta of the loop's shortest sleep.
SleepQuantumMs == POLL_INTERVAL_MS * 5

\* thread::sleep(d) seen by boot_start.elapsed(): at least d
Slept(e, d, j) == Min(e + d + j * SleepQuantumMs, ClockCap)

\* Mutant: the timeout error carries the status word of the previous poll.
TimeoutStatusStale(last, polled) == polled

\* The timeout error carries the status word read at expiry.
TimeoutStatus(last, polled) == last

\* Mutant: Ready carries the status word instead of the version register.
ReadyVersionFromStatus(version, raw) == raw

\* BootResult::Ready carries the version register read after the READY poll.
ReadyVersion(version, raw) == version

NoRead == [reg |-> -1, val |-> Word0]
NoResult == [kind |-> "none", data |-> Word0]

(***************************************************************************)
(* Init: BootSequence::new; nothing written, no buffer.                    *)
(***************************************************************************)
BootStart ==
    /\ pc = "power_up"
    /\ mmio_writes = << >>
    /\ fw_buffer = "none"
    /\ fw_phys = << 0, 0, 0, 0 >>
    /\ readback = << Word0, Word0 >>
    /\ buttress_ok = FALSE
    /\ nudge_count = 0
    /\ elapsed = 0
    /\ raw_status = Word0
    /\ cafe_polls = 0
    /\ final_read = NoRead
    /\ diag_dumps = 0
    /\ slept_ms = 0
    /\ result = NoResult

BootInit == BootStart /\ QueueAbsent /\ DriverAbsent /\ FirmwareAbsent /\ MmioAbsent /\ DmaAbsent /\ MonitorAbsent /\ SchemeAbsent /\ PciAbsent /\ DescAbsent /\ VadAbsent

\* Mutant: a timed-out buttress poll fails the boot with PowerUpTimeout.
PowerPollFatal(ok) ==
    IF ok THEN [pc |-> "load_firmware", result |-> NoResult]
    ELSE [pc |-> "done", result |-> [kind |-> "PowerUpTimeout", data |-> Word0]]

\* power_up after poll_until: Ok and Err(last) both only log, then Ok(()).
PowerPollOutcome(ok) == [pc |-> "load_firmware", result |-> NoResult]

\* execute returns Err(e): the `?` drops the local fw_buffer if it exists.
DroppedOnError(buf) == IF buf = "alive" THEN "released" ELSE buf

\* execute returns Ok((result, fw_buffer)): the buffer moves to the caller.
MovedToCaller(buf) == "returned"

(***************************************************************************)
(* Step 1: power_up (never fails).                                         *)
(***************************************************************************)
power_up ==
    /\ pc = "power_up"
    /\ UNCHANGED nonBootVars
    /\ mmio_writes' = mmio_writes \o PowerUpWrites
    /\ \E val \in ButtressValues : \E ok \in { And32(val, Word1) # Word0 } :
          /\ buttress_ok' = ok
          /\ pc' = PowerPollOutcome(ok).pc
          /\ result' = PowerPollOutcome(ok).result
    /\ UNCHANGED << fw_buffer, fw_phys, readback, nudge_count, elapsed,
                    raw_status, cafe_polls, final_read, diag_dumps, slept_ms >>

(***************************************************************************)
(* Step 2: load_firmware: dma::load_firmware fails, or yields a buffer.    *)
(***************************************************************************)
load_firmware ==
    /\ pc = "load_firmware"
    /\ UNCHANGED nonBootVars
    /\ \/ /\ result' = [kind |-> "FirmwareLoad", data |-> Word0]
          /\ pc' = "done"
          /\ UNCHANGED << fw_buffer, fw_phys >>
       \/ /\ \E p \in PhysAddrs : fw_phys' = p
          /\ fw_buffer' = "alive"
          /\ pc' = "set_firmware_address"
          /\ UNCHANGED result
    /\ UNCHANGED << mmio_writes, readback, buttress_ok, nudge_count, elapsed,
                    raw_status, cafe_polls, final_read, diag_dumps, slept_ms >>

(***************************************************************************)
(* Step 3: set_firmware_address: write both halves, read both back.        *)
(***************************************************************************)
ReadbackValues(p) == { phys_lo(p), phys_hi(p), Word0, WordOnes }

set_firmware_address ==
    /\ pc = "set_firmware_address"
    /\ UNCHANGED nonBootVars
    /\ mmio_writes' = mmio_writes \o AddressWrites(fw_phys)
    /\ \E lo \in ReadbackValues(fw_phys), hi \in ReadbackValues(fw_phys) :
          /\ readback' = << lo, hi >>
          /\ IF ReadbackMismatch(lo, hi, fw_phys)
             THEN /\ result' = [kind |-> "AddressReadbackMismatch", data |-> Word0]
                  /\ fw_buffer' = DroppedOnError(fw_buffer)
                  /\ pc' = "done"
             ELSE /\ pc' = "trigger_and_wait"
                  /\ UNCHANGED << result, fw_buffer >>
    /\ UNCHANGED << fw_phys, buttress_ok, nudge_count, elapsed, raw_status,
                    cafe_polls, final_read, diag_dumps, slept_ms >>

(***************************************************************************)
(* Step 4: trigger_and_wait up to the status loop: unmask, ring, sleep,    *)
(* start the deadline clock.                                               *)
(***************************************************************************)
trigger_and_wait ==
    /\ pc = "trigger_and_wait"
    /\ UNCHANGED nonBootVars
    /\ mmio_writes' = mmio_writes \o TriggerWrites
    /\ slept_ms' = InitialDelayMs
    /\ nudge_count' = 0
    /\ elapsed' = 0
    /\ pc' = "status_loop"
    /\ UNCHANGED << fw_buffer, fw_phys, readback, buttress_ok, raw_status,
                    cafe_polls, final_read, diag_dumps, result >>

(***************************************************************************)
(* One iteration of the status loop with the deadline expired.             *)
(***************************************************************************)
boot_timeout ==
    /\ pc = "status_loop"
    /\ UNCHANGED nonBootVars
    /\ DeadlineExpired(elapsed)
    /\ \E last \in StatusValues :
          /\ final_read' = [reg |-> HOST_SS_FW_STATUS, val |-> last]
          /\ result' = [kind |-> "Timeout", data |-> TimeoutStatus(last, raw_status)]
    /\ diag_dumps' = diag_dumps + 1
    /\ fw_buffer' = DroppedOnError(fw_buffer)
    /\ slept_ms' = 0
    /\ pc' = "done"
    /\ UNCHANGED << mmio_writes, fw_phys, readback, buttress_ok, nudge_count,
                    elapsed, raw_status, cafe_polls >>

(***************************************************************************)
(* One iteration of the status loop before the deadline: read the status   *)
(* word and dispatch on its upper half.                                    *)
(***************************************************************************)
status_poll ==
    /\ pc = "status_loop"
    /\ UNCHANGED nonBootVars
    /\ ~DeadlineExpired(elapsed)
    /\ \E raw \in StatusValues : \E code \in { StatusCode(raw) } :
          /\ raw_status' = raw
          /\ cafe_polls' = IF code = FW_STATUS_CAFE THEN cafe_polls + 1 ELSE cafe_polls
          /\ CASE code = FW_STATUS_READY ->
                    /\ \E version \in VersionValues :
                          /\ final_read' = [reg |-> HOST_SS_FW_VERSION, val |-> version]
                          /\ result' = [kind |-> "Ready",
                                        data |-> ReadyVersion(version, raw)]
                    /\ fw_buffer' = MovedToCaller(fw_buffer)
                    /\ slept_ms' = 0
                    /\ pc' = "done"
                    /\ UNCHANGED << mmio_writes, nudge_count, elapsed, diag_dumps >>
               [] code = FW_STATUS_DEAD ->
                    /\ result' = [kind |-> "FirmwareDead", data |-> Word0]
                    /\ diag_dumps' = diag_dumps + 1
                    /\ fw_buffer' = DroppedOnError(fw_buffer)
                    /\ slept_ms' = 0
                    /\ pc' = "done"
                    /\ UNCHANGED << mmio_writes, nudge_count, elapsed, final_read >>
               [] code = FW_STATUS_OBAD ->
                    /\ result' = [kind |-> "FirmwareBadImage", data |-> Word0]
                    /\ fw_buffer' = DroppedOnError(fw_buffer)
                    /\ slept_ms' = 0
                    /\ pc' = "done"
                    /\ UNCHANGED << mmio_writes, nudge_count, elapsed, final_read,
                                    diag_dumps >>
               [] code = FW_STATUS_CAFE ->
                    /\ nudge_count' = nudge_count + 1
                    /\ IF nudge_count + 1 > NUDGE_MAX_RETRIES
                       THEN /\ result' = [kind |-> "NudgeExhausted",
                                          data |-> WordOf(nudge_count + 1)]
                            /\ diag_dumps' = diag_dumps + 1
                            /\ fw_buffer' = DroppedOnError(fw_buffer)
                            /\ slept_ms' = 0
                            /\ pc' = "done"
                            /\ UNCHANGED << mmio_writes, elapsed, final_read >>
                       ELSE /\ mmio_writes' = mmio_writes \o NudgeWrites
                            /\ slept_ms' = NudgeSleepMs(nudge_count + 1)
                            /\ \E j \in 0..MaxJitter :
                                  elapsed' = Slept(elapsed, NudgeSleepMs(nudge_count + 1), j)
                            /\ UNCHANGED << pc, result, fw_buffer, final_read, diag_dumps >>
               [] code = FW_STATUS_BEEF \/ code = FW_STATUS_FACE ->
                    /\ slept_ms' = InProgressSleepMs
                    /\ \E j \in 0..MaxJitter :
                          elapsed' = Slept(elapsed, InProgressSleepMs, j)
                    /\ UNCHANGED << pc, result, fw_buffer, final_read, diag_dumps,
                                    mmio_writes, nudge_count >>
               [] OTHER ->
                    /\ slept_ms' = IdleSleepMs(raw)
                    /\ \E j \in 0..MaxJitter :
                          elapsed' = Slept(elapsed, IdleSleepMs(raw), j)
                    /\ UNCHANGED << pc, result, fw_buffer, final_read, diag_dumps,
                                    mmio_writes, nudge_count >>
    /\ UNCHANGED << fw_phys, readback, buttress_ok >>

BootNext ==
    \/ power_up
    \/ load_firmware
    \/ set_firmware_address
    \/ trigger_and_wait
    \/ boot_timeout
    \/ status_poll

BootSpec == BootInit /\ [][BootNext]_vars

\* The driver is one thread that keeps running until execute returns.
BootFairSpec == BootSpec /\ WF_vars(BootNext)

TypeOK ==
    /\ pc \in { "power_up", "load_firmware", "set_firmware_address",
                "trigger_and_wait", "status_loop", "done" }
    /\ fw_buffer \in { "none", "alive", "returned", "released" }
    /\ nudge_count \in 0..(NUDGE_MAX_RETRIES + 1)
    /\ elapsed \in 0..ClockCap
    /\ raw_status \in StatusValues

(***************************************************************************)
(* Observations on the write log used by the properties below.             *)
(***************************************************************************)
WritesTo(reg) ==
    Cardinality({ i \in DOMAIN mmio_writes : mmio_writes[i][1] = reg })

DoorbellRings == WritesTo(IPC_HOST_2_DEVICE_DRBL)

\* The status loop has been entered (the initial doorbell ring was made).
LoopEntered == DoorbellRings > 0

Returned == pc = "done"

(***************************************************************************)
(* Properties of the boot status loop.                                     *)
(***************************************************************************)

\* C1: within one run of the status loop the nudge counter never decreases,
\* grows by exactly one on exactly the polls that observe 0xCAFE, never
\* exceeds 5, and every nudge appends one write of 0x8000_0000 to the
\* host-to-device doorbell.
C1_NudgeCounter ==
    [][ /\ nudge_count' >= nudge_count
        /\ nudge_count' <= 5
        /\ (cafe_polls' = cafe_polls + 1) <=> (nudge_count' = nudge_count + 1)
        /\ nudge_count' # nudge_count =>
              /\ nudge_count' = nudge_count + 1
              /\ raw_status'[1] = \hCAFE
              /\ mmio_writes' =
                    Append(mmio_writes, << IPC_HOST_2_DEVICE_DRBL, << \h8000, 0 >> >>)
      ]_bootVars

\* C1 witness: the fifth nudge has been issued and the loop is still running.
C1_Witness ==
    /\ pc = "status_loop"
    /\ nudge_count = 5
    /\ DoorbellRings = 6

\* C2: a boot that ends in Ready after k polls observed 0xCAFE (0 <= k <= 5)
\* wrote the doorbell exactly k+1 times, each time with 0x8000_0000, and its
\* nudge counter ended at k; with k = 0 the doorbell was written once.
C2_ReadyDoorbellCount ==
    (result.kind = "Ready" /\ cafe_polls \in 0..5) =>
        /\ DoorbellRings = cafe_polls + 1
        /\ nudge_count = cafe_polls
        /\ \A i \in DOMAIN mmio_writes :
              mmio_writes[i][1] = IPC_HOST_2_DEVICE_DRBL =>
                 mmio_writes[i][2] = << \h8000, 0 >>

\* C2 witness (scenario S3): Ready after three 0xCAFE polls, four doorbell writes.
C2_Witness ==
    /\ result.kind = "Ready"
    /\ cafe_polls = 3
    /\ nudge_count = 3
    /\ DoorbellRings = 4

\* C3: Ready is returned only from a poll whose status word has 0xF00D in
\* its upper 16 bits, and fw_version is the value of the firmware-version
\* register read after that poll; no other result kind reports success.
C3_ReadyOnlyOnF00D ==
    /\ result.kind = "Ready" =>
          /\ raw_status[1] = \hF00D
          /\ final_read = [reg |-> HOST_SS_FW_VERSION, val |-> result.data]
    /\ result.kind # "Ambiguous"
    /\ fw_buffer = "returned" <=> result.kind = "Ready"

\* C3 witness: Ready from the word 0xF00D0001 with version 0x01020304.
C3_Witness ==
    /\ result = [kind |-> "Ready", data |-> << \h0102, \h0304 >>]
    /\ raw_status = << \hF00D, 1 >>

LoopOutcomes ==
    { "Ready", "FirmwareDead", "FirmwareBadImage", "NudgeExhausted", "Timeout" }

\* C4: whatever status words the device presents, the boot returns, and a
\* boot that entered the status loop returns exactly one of Ready,
\* FirmwareDead, FirmwareBadImage, NudgeExhausted, Timeout.
C4_LoopTerminates ==
    <>(Returned /\ (LoopEntered => result.kind \in LoopOutcomes))

\* C4 witness: the loop ended by Timeout after polling an unknown code.
C4_Witness ==
    /\ Returned
    /\ result.kind = "Timeout"
    /\ raw_status = << \h1234, 0 >>

\* C5: measured from the start of the status loop, the loop returns no later
\* than FW_BOOT_TIMEOUT_MS (5000 ms) plus one poll interval (10 ms), for
\* every sequence of status words.
C5_WallTimeBound ==
    (Returned /\ LoopEntered) => elapsed <= 5000 + 10

\* C6: if no poll of the boot window shows 0xF00D, 0xDEAD, 0x0BAD or 0xCAFE
\* in the upper 16 bits, the boot returns Timeout{last_status} once the
\* 5000 ms deadline is found expired, and last_status is the status word
\* read at that moment.
C6_TimeoutLastStatus ==
    ( /\ Returned
      /\ LoopEntered
      /\ cafe_polls = 0
      /\ raw_status[1] \notin { \hF00D, \hDEAD, \h0BAD } )
    => /\ result.kind = "Timeout"
       /\ elapsed >= 5000
       /\ final_read.reg = HOST_SS_FW_STATUS
       /\ result.data = final_read.val

\* C6 witness: every poll read an in-progress word, the read at expiry
\* returned 0x00000000, and the boot ended Timeout{0x00000000}.
C6_Witness ==
    /\ Returned
    /\ cafe_polls = 0
    /\ raw_status = << \hBEEF, 0 >>
    /\ final_read = [reg |-> HOST_SS_FW_STATUS, val |-> << 0, 0 >>]
    /\ result = [kind |-> "Timeout", data |-> << 0, 0 >>]

(***************************************************************************)
(* Properties of BootSequence::execute as a whole.                         *)
(***************************************************************************)
AddressPublished ==
    WritesTo(HOST_SS_LOADING_ADDR_LO) + WritesTo(HOST_SS_LOADING_ADDR_HI) > 0

DeviceReset ==
    WritesTo(HOST_SS_CPR_RST_SET) + WritesTo(BUTTRESS_VPU_IP_RESET) > 0

\* C7: once the physical address of the firmware buffer has been published,
\* the buffer is released only after the device has been reset; otherwise
\* it is still alive or has been handed to the caller.
C7_BufferOutlivesDevice ==
    (AddressPublished /\ fw_buffer = "released") => DeviceReset

VerifiedAddress ==
    /\ fw_buffer # "none"
    /\ readback = << << fw_phys[3], fw_phys[4] >>, << fw_phys[1], fw_phys[2] >> >>

\* C8: no boot execution writes either interrupt mask more than once; a boot
\* whose firmware address was published and verified (the boots that ring
\* the doorbell) writes 0 to the global and to the IPC interrupt mask exactly
\* once each, right after the two address writes and immediately before the
\* first doorbell write; no mask write occurs during power-up, firmware
\* staging, address publish or nudges.
C8_UnmaskedOnceBeforeDoorbell ==
    /\ WritesTo(BUTTRESS_GLOBAL_INT_MASK) <= 1
    /\ WritesTo(IPC_INT_MASK) <= 1
    /\ (pc \in { "status_loop", "done" } /\ VerifiedAddress) =>
          /\ Len(mmio_writes) >= 8
          /\ mmio_writes[4][1] = HOST_SS_LOADING_ADDR_LO
          /\ mmio_writes[5][1] = HOST_SS_LOADING_ADDR_HI
          /\ mmio_writes[6] = << BUTTRESS_GLOBAL_INT_MASK, << 0, 0 >> >>
          /\ mmio_writes[7] = << IPC_INT_MASK, << 0, 0 >> >>
          /\ mmio_writes[8][1] = IPC_HOST_2_DEVICE_DRBL
          /\ \A i \in 1..7 : mmio_writes[i][1] # IPC_HOST_2_DEVICE_DRBL
    /\ ~(pc \in { "status_loop", "done" } /\ VerifiedAddress) =>
          /\ WritesTo(BUTTRESS_GLOBAL_INT_MASK) = 0
          /\ WritesTo(IPC_INT_MASK) = 0
          /\ DoorbellRings = 0

\* C8 witness: two nudges after the initial ring, masks written once each.
C8_Witness ==
    /\ pc = "status_loop"
    /\ DoorbellRings = 3
    /\ WritesTo(BUTTRESS_GLOBAL_INT_MASK) = 1
    /\ WritesTo(IPC_INT_MASK) = 1

\* C9: if either load-address register reads back a value other than the
\* half of the physical address written to it, execute fails with
\* AddressReadbackMismatch and that boot never writes the interrupt masks
\* or the doorbell.
C9_ReadbackMismatchStops ==
    ( /\ pc \in { "trigger_and_wait", "status_loop", "done" }
      /\ fw_buffer # "none"
      /\ \/ readback[1] # << fw_phys[3], fw_phys[4] >>
         \/ readback[2] # << fw_phys[1], fw_phys[2] >> )
    => /\ Returned
       /\ result.kind = "AddressReadbackMismatch"
       /\ WritesTo(BUTTRESS_GLOBAL_INT_MASK) = 0
       /\ WritesTo(IPC_INT_MASK) = 0
       /\ DoorbellRings = 0

\* C9 witness: the low half read back correctly, the high half read zero.
C9_Witness ==
    /\ result.kind = "AddressReadbackMismatch"
    /\ fw_phys = << 0, 1, \h2345, \h6000 >>
    /\ readback = << << \h2345, \h6000 >>, << 0, 0 >> >>
    /\ Len(mmio_writes) = 5

\* C10: power-up writes 0 to D0i3 control, then 1 to clock enable, then 1 to
\* reset clear, as the first three register writes with nothing in between,
\* before any write of the load address, the interrupt masks or the doorbell.
C10_PowerUpOrder ==
    /\ pc = "power_up" => mmio_writes = << >>
    /\ pc # "power_up" =>
          /\ Len(mmio_writes) >= 3
          /\ mmio_writes[1] = << BUTTRESS_VPU_D0I3_CONTROL, << 0, 0 >> >>
          /\ mmio_writes[2] = << HOST_SS_CLK_EN, << 0, 1 >> >>
          /\ mmio_writes[3] = << HOST_SS_CPR_RST_CLR, << 0, 1 >> >>
          /\ \A i \in DOMAIN mmio_writes :
                mmio_writes[i][1] \in
                   { HOST_SS_LOADING_ADDR_LO, HOST_SS_LOADING_ADDR_HI,
                     IPC_HOST_2_DEVICE_DRBL, BUTTRESS_GLOBAL_INT_MASK, IPC_INT_MASK }
                => i > 3

\* C10 witness: the address has been written and the doorbell rung.
C10_Witness ==
    /\ pc = "status_loop"
    /\ AddressPublished
    /\ DoorbellRings = 1

\* C11: a buttress power poll that times out (bit 0 never set) does not fail
\* the boot: power_up hands over to firmware staging with no result set, the
\* boot goes on to address publish and trigger, and no boot ever returns
\* PowerUpTimeout.
C11_PowerPollAdvisory ==
    /\ result.kind # "PowerUpTimeout"
    /\ pc = "load_firmware" => result.kind = "none"
    /\ (pc # "power_up" /\ ~buttress_ok) =>
          /\ Len(mmio_writes) >= 3
          /\ result.kind \in { "none", "FirmwareLoad", "AddressReadbackMismatch" }
                \/ LoopEntered

\* C11 witness: the power poll timed out and the boot reached Ready.
C11_Witness ==
    /\ ~buttress_ok
    /\ result.kind = "Ready"
    /\ AddressPublished
    /\ LoopEntered

TerminalBootErrors ==
    { "AddressReadbackMismatch", "FirmwareDead", "FirmwareBadImage",
      "NudgeExhausted", "Timeout" }

\* C12: every terminal boot error (AddressReadbackMismatch, FirmwareDead,
\* FirmwareBadImage, NudgeExhausted, Timeout) is returned only after
\* dump_diagnostics has run.
C12_DumpBeforeError ==
    (Returned /\ result.kind \in TerminalBootErrors) => diag_dumps >= 1

(***************************************************************************)
(* The command ring: inference.rs CommandQueue over a dma.rs DmaBuffer.    *)
(***************************************************************************)
DMA_ALIGNMENT == 4096
CMD_QUEUE_SIZE == 256
CMD_DESC_SIZE == 64

\* Calls of submit explored on one queue.
MaxSubmits == 4

\* x + k on usize, k small: the wrapped sum and whether it overflowed.
UsizeAdd(x, k) ==
    LET s4 == x[4] + k
        s3 == x[3] + (s4 \div 65536)
        s2 == x[2] + (s3 \div 65536)
        s1 == x[1] + (s2 \div 65536)
    IN  [ val |-> << s1 % 65536, s2 % 65536, s3 % 65536, s4 % 65536 >>,
          overflow |-> s1 \div 65536 > 0 ]

\* x * k on usize, k small: the wrapped product and whether it overflowed.
UsizeMul(x, k) ==
    LET p4 == x[4] * k
        p3 == x[3] * k + (p4 \div 65536)
        p2 == x[2] * k + (p3 \div 65536)
        p1 == x[1] * k + (p2 \div 65536)
    IN  [ val |-> << p1 % 65536, p2 % 65536, p3 % 65536, p4 % 65536 >>,
          overflow |-> p1 \div 65536 > 0 ]

UsizeLess(a, b) ==
    \E i \in 1..4 : a[i] < b[i] /\ \A j \in 1..(i - 1) : a[j] = b[j]

UsizeLeq(a, b) == a = b \/ UsizeLess(a, b)

\* A usize below 2^31 as a number.
UsizeSmall(x) == x[1] = 0 /\ x[2] = 0 /\ x[3] < 32768
UsizeVal(x) == x[3] * 65536 + x[4]

\* n % m for a number n and a usize m > 0.
UsizeRem(n, m) == IF UsizeSmall(m) THEN n % UsizeVal(m) ELSE n

\* usize::checked_mul and usize::checked_add: None on overflow.
checked_mul(x, k) ==
    [ some |-> ~UsizeMul(x, k).overflow, val |-> UsizeMul(x, k).val ]
checked_add(x, k) ==
    [ some |-> ~UsizeAdd(x, k).overflow, val |-> UsizeAdd(x, k).val ]

\* u32::try_from(usize)
u32_try_from(x) ==
    [ some |-> x[1] = 0 /\ x[2] = 0, val |-> << x[3], x[4] >> ]

\* u32 += 1: the wrapped value and whether it overflowed.
Inc32(w) ==
    IF w[2] < 65535 THEN [ val |-> << w[1], w[2] + 1 >>, overflow |-> FALSE ]
    ELSE [ val |-> << (w[1] + 1) % 65536, 0 >>, overflow |-> w[1] = 65535 ]

Less32(a, b) == a[1] < b[1] \/ (a[1] = b[1] /\ a[2] < b[2])

\* Mutant: the requested size is allocated as it is, without page rounding.
AlignedSizeAsRequested(size) == [ val |-> size, overflow |-> FALSE ]

\* DmaBuffer::new: (size + DMA_ALIGNMENT - 1) & !(DMA_ALIGNMENT - 1)
aligned_size(size) ==
    LET sum == UsizeAdd(size, DMA_ALIGNMENT - 1)
    IN  [ val |-> << sum.val[1], sum.val[2], sum.val[3],
                     sum.val[4] - (sum.val[4] % DMA_ALIGNMENT) >>,
          overflow |-> sum.overflow ]

\* What the memory: scheme answers to an allocation.
AllocOutcomes == { "Ok", "SchemeOpen", "Mmap", "VirtToPhys" }

\* DmaBuffer::new(size): the result and the size field of the buffer.
DmaBuffer_new(size, alloc, checks) ==
    IF size = UsizeOf(0) THEN [ kind |-> "ZeroSize", size |-> UsizeOf(0) ]
    ELSE IF aligned_size(size).overflow /\ checks
         THEN [ kind |-> "panic", size |-> UsizeOf(0) ]
    ELSE IF alloc # "Ok" THEN [ kind |-> alloc, size |-> UsizeOf(0) ]
    ELSE [ kind |-> "Ok", size |-> aligned_size(size).val ]

\* Mutant: the ring size is computed with a wrapping multiplication.
TotalSizeWrapping(n) == [ some |-> TRUE, val |-> UsizeMul(n, CMD_DESC_SIZE).val ]

\* CommandQueue::new: capacity.checked_mul(CMD_DESC_SIZE)
total_size(n) == checked_mul(n, CMD_DESC_SIZE)

\* CommandQueue::new: next_job_id: 1
FirstJobId == Word1

\* CommandQueue::new(n): the result and the fields of the queue.
NewQueue(n, alloc, checks) ==
    IF n = UsizeOf(0) THEN [ kind |-> "ZeroSize", ring_size |-> UsizeOf(0) ]
    ELSE IF ~total_size(n).some
         THEN [ kind |-> "OutOfBounds", ring_size |-> UsizeOf(0) ]
    ELSE LET buf == DmaBuffer_new(total_size(n).val, alloc, checks)
         IN  [ kind |-> buf.kind, ring_size |-> buf.size ]

\* Capacities tried: small ones, the driver's, and those around the overflow
\* of n * 64 and of the page rounding (2^58 - 64, 2^58 - 1, 2^58, usize::MAX).
Capacities ==
    { UsizeOf(0), UsizeOf(1), UsizeOf(2), UsizeOf(3), UsizeOf(CMD_DESC_SIZE),
      UsizeOf(CMD_QUEUE_SIZE),
      << 1023, 65535, 65535, 65472 >>, << 1023, 65535, 65535, 65535 >>,
      << 1024, 0, 0, 0 >>, UsizeMax }

\* DmaBuffers handed to submit: a page, and one of 4 GiB (size > u32::MAX).
Buffers ==
    { [ phys |-> << 0, 1, \h2345, \h6000 >>, size |-> UsizeOf(DMA_ALIGNMENT) ],
      [ phys |-> << 0, 0, \h7FFF, \h1000 >>, size |-> << 0, 1, 0, 0 >> ] }

\* CommandDescriptor::new_inference
new_inference(job_id, model, input, output) ==
    LET model_size == u32_try_from(model.size)
        input_size == u32_try_from(input.size)
        output_size == u32_try_from(output.size)
    IN  [ some |-> model_size.some /\ input_size.some /\ output_size.some,
          val |-> [ opcode |-> Word1, flags |-> Word0,
                    model_addr_lo |-> phys_lo(model.phys),
                    model_addr_hi |-> phys_hi(model.phys),
                    model_size |-> model_size.val,
                    input_addr_lo |-> phys_lo(input.phys),
                    input_addr_hi |-> phys_hi(input.phys),
                    input_size |-> input_size.val,
                    output_addr_lo |-> phys_lo(output.phys),
                    output_addr_hi |-> phys_hi(output.phys),
                    output_size |-> output_size.val,
                    job_id |-> job_id ] ]

\* DmaBuffer::write_bytes: the bounds check on offset..offset+len.
write_bytes_ok(offset, len, size) ==
    /\ checked_add(offset, len).some
    /\ UsizeLeq(checked_add(offset, len).val, size)

\* Mutant: the write index grows without wrapping.
NextWriteIdxNoWrap(idx, cap) == idx + 1

\* submit: (self.write_idx + 1) % self.capacity
NextWriteIdx(idx, cap) == UsizeRem(idx + 1, cap)

\* Mutant: the doorbell is rung before the descriptor is in the ring.
SubmitEffectsRingFirst(offset, cmd) ==
    << [ op |-> "write32", offset |-> IPC_HOST_2_DEVICE_DRBL,
         len |-> 4, data |-> IPC_DRBL_TRIGGER ],
       [ op |-> "write_bytes", offset |-> offset, len |-> CMD_DESC_SIZE,
         data |-> cmd ] >>

\* submit: ring.write_bytes(offset, &cmd_bytes), then the doorbell write32.
SubmitEffects(offset, cmd) ==
    << [ op |-> "write_bytes", offset |-> offset, len |-> CMD_DESC_SIZE,
         data |-> cmd ],
       [ op |-> "write32", offset |-> IPC_HOST_2_DEVICE_DRBL,
         len |-> 4, data |-> IPC_DRBL_TRIGGER ] >>

\* The result of submit, after the job id was taken.
SubmitOutcome(cmd, offset) ==
    IF ~cmd.some THEN "BufferTooLarge"
    ELSE IF ~offset.some THEN "QueueFull"
    ELSE IF ~write_bytes_ok(offset.val, CMD_DESC_SIZE, ring_size) THEN "QueueWrite"
    ELSE "Ok"

CommandQueue_new ==
    /\ queue = "unborn"
    /\ \E n \in Capacities : \E alloc \in AllocOutcomes :
          LET made == NewQueue(n, alloc, overflow_checks)
          IN  /\ new_result' = [ kind |-> made.kind, capacity |-> n ]
              /\ queue' = CASE made.kind = "Ok" -> "live"
                            [] made.kind = "panic" -> "panicked"
                            [] OTHER -> "failed"
              /\ capacity' = IF made.kind = "Ok" THEN n ELSE capacity
              /\ ring_size' = made.ring_size
              /\ write_idx' = 0
              /\ next_job_id' = IF made.kind = "Ok" THEN FirstJobId ELSE next_job_id
    /\ UNCHANGED << ring, submits, trace, overflow_checks, fresh >>
    /\ UNCHANGED nonQueueVars

submit ==
    /\ queue = "live"
    /\ Len(submits) < MaxSubmits
    /\ \E model \in Buffers : \E input \in Buffers : \E output \in Buffers :
          LET job_id == next_job_id
              bump == Inc32(next_job_id)
              cmd == new_inference(job_id, model, input, output)
              offset == checked_mul(UsizeOf(write_idx), CMD_DESC_SIZE)
              outcome == SubmitOutcome(cmd, offset)
              call == [ idx |-> write_idx, job_id |-> job_id ]
          IN  IF bump.overflow /\ overflow_checks
              THEN /\ queue' = "panicked"
                   /\ submits' = Append(submits, call @@ [ kind |-> "panic" ])
                   /\ UNCHANGED << next_job_id, write_idx, ring, trace >>
              ELSE /\ next_job_id' = bump.val
                   /\ submits' = Append(submits, call @@ [ kind |-> outcome ])
                   /\ queue' = queue
                   /\ IF outcome = "Ok"
                      THEN /\ ring' = [ o \in DOMAIN ring \cup { UsizeVal(offset.val) } |->
                                          IF o = UsizeVal(offset.val) THEN cmd.val
                                          ELSE ring[o] ]
                           /\ write_idx' = NextWriteIdx(write_idx, capacity)
                           /\ trace' = trace \o SubmitEffects(UsizeVal(offset.val), cmd.val)
                      ELSE UNCHANGED << ring, write_idx, trace >>
    /\ UNCHANGED << capacity, ring_size, new_result, overflow_checks, fresh >>
    /\ UNCHANGED nonQueueVars

\* The driver's queue (CMD_QUEUE_SIZE entries) after 2^32 - 3 successful
\* submits: the next job id is 0xFFFF_FFFE.
QueueLongRunning ==
    /\ queue = "live"
    /\ capacity = UsizeOf(CMD_QUEUE_SIZE)
    /\ write_idx = CMD_QUEUE_SIZE - 3
    /\ next_job_id = << 65535, 65534 >>
    /\ ring_size = UsizeOf(CMD_QUEUE_SIZE * CMD_DESC_SIZE)
    /\ ring = [ o \in {} |-> NoDescriptor ]
    /\ new_result = [ kind |-> "Ok", capacity |-> UsizeOf(CMD_QUEUE_SIZE) ]
    /\ submits = << >>
    /\ trace = << >>
    /\ fresh = FALSE

QueueInit ==
    /\ BootStart
    /\ VadAbsent
    /\ DescAbsent
    /\ PciAbsent
    /\ SchemeAbsent
    /\ MonitorAbsent
    /\ DmaAbsent
    /\ MmioAbsent
    /\ DriverAbsent
    /\ FirmwareAbsent
    /\ overflow_checks \in BOOLEAN
    /\ QueueUnborn \/ QueueLongRunning

QueueNext ==
    \/ CommandQueue_new
    \/ submit

QueueSpec == QueueInit /\ [][QueueNext]_vars

(***************************************************************************)
(* Claims about the command ring.                                          *)
(***************************************************************************)
\* The calls of submit that returned Ok(job_id), in order.
OkSubmits == SelectSeq(submits, LAMBDA c : c.kind = "Ok")

DoorbellEvent ==
    [ op |-> "write32", offset |-> IPC_HOST_2_DEVICE_DRBL, len |-> 4,
      data |-> IPC_DRBL_TRIGGER ]

\* n * 64 fits the 64-bit platform word: n < 2^58.
FitsTimes64(n) == UsizeLess(n, << 1024, 0, 0, 0 >>)

\* C13: after k successful submits on a fresh queue of capacity N the write
\* index is k mod N and the job ids returned were 1, 2, ..., k in that
\* order; always 0 <= write_idx < N.
C13_IdsCountSubmits ==
    (fresh /\ queue = "live") =>
        /\ write_idx = UsizeRem(Len(OkSubmits), capacity)
        /\ \A i \in 1..Len(OkSubmits) : OkSubmits[i].job_id = << 0, i >>
        /\ write_idx >= 0
        /\ UsizeLess(UsizeOf(write_idx), capacity)

\* C14: in every successful submit the whole 64-byte descriptor is written
\* at byte offset write_idx * 64 (the index before the call) before the
\* doorbell write, and the doorbell is written exactly once per successful
\* submit, with 0x8000_0000.
C14_DescriptorBeforeDoorbell ==
    /\ Len(trace) = 2 * Len(OkSubmits)
    /\ \A i \in 1..Len(OkSubmits) :
          /\ trace[2 * i - 1].op = "write_bytes"
          /\ trace[2 * i - 1].offset = OkSubmits[i].idx * 64
          /\ trace[2 * i - 1].len = 64
          /\ trace[2 * i - 1].data.job_id = OkSubmits[i].job_id
          /\ trace[2 * i] = DoorbellEvent
          /\ DoorbellEvent.data = << \h8000, 0 >>

\* C14 witness: two submits succeeded around one that failed; the second
\* descriptor went to a slot other than 0.
C14_Witness ==
    /\ Len(OkSubmits) = 2
    /\ Len(submits) = 3
    /\ submits[2].kind = "BufferTooLarge"
    /\ trace[3].offset = 64

\* C15: a submit that fails with BufferTooLarge leaves the queue as it was
\* (next job id, write index, ring) and rings no doorbell.
C15_FailedSubmitChangesNothing ==
    [][ ( /\ Len(submits') = Len(submits) + 1
          /\ submits'[Len(submits')].kind = "BufferTooLarge" )
        => ( /\ next_job_id' = next_job_id
             /\ write_idx' = write_idx
             /\ ring' = ring
             /\ trace' = trace ) ]_vars

\* C16: submit never reports QueueFull; on a fresh queue the k-th successful
\* submit writes slot (k - 1) mod N, so each slot holds the descriptor of
\* the latest submit that mapped to it (the (N+1)-th overwrites the first).
C16_RingWraps ==
    /\ \A i \in 1..Len(submits) : submits[i].kind # "QueueFull"
    /\ fresh =>
          /\ \A k \in 1..Len(OkSubmits) :
                trace[2 * k - 1].offset = UsizeRem(k - 1, capacity) * 64
          /\ \A k \in 1..Len(OkSubmits) :
                ( \A later \in (k + 1)..Len(OkSubmits) :
                      UsizeRem(later - 1, capacity) # UsizeRem(k - 1, capacity) )
                => /\ UsizeRem(k - 1, capacity) * 64 \in DOMAIN ring
                   /\ ring[UsizeRem(k - 1, capacity) * 64].job_id
                          = OkSubmits[k].job_id

\* C16 witness: a ring of 3 slots after 4 successful submits: slot 0 holds
\* the fourth descriptor.
C16_Witness ==
    /\ fresh
    /\ capacity = UsizeOf(3)
    /\ Len(OkSubmits) = 4
    /\ ring[0].job_id = OkSubmits[4].job_id
    /\ ring[64].job_id = OkSubmits[2].job_id

\* C17: the job ids returned by submit are strictly increasing (so no two
\* are equal), also when the 32-bit next-job-id counter reaches its maximum.
C17_JobIdsIncrease ==
    \A i \in 1..Len(OkSubmits) : \A j \in 1..Len(OkSubmits) :
        i < j => Less32(OkSubmits[i].job_id, OkSubmits[j].job_id)

\* C18 as stated: CommandQueue::new(0) fails with ZeroSize; for n > 0 it
\* succeeds if and only if n * 64 does not overflow the platform word; a
\* created queue starts with write index 0 and next job id 1.
C18_NewSucceedsIffNoOverflow ==
    new_result.kind # "none" =>
        /\ new_result.capacity = UsizeOf(0) => new_result.kind = "ZeroSize"
        /\ new_result.capacity # UsizeOf(0) =>
              (new_result.kind = "Ok" <=> FitsTimes64(new_result.capacity))
        /\ (fresh /\ queue = "live" /\ submits = << >>) =>
              (write_idx = 0 /\ next_job_id = << 0, 1 >>)

\* C18 amended: CommandQueue::new(0) fails with ZeroSize; for n > 0 it fails
\* with OutOfBounds whenever n * 64 overflows the platform word and succeeds
\* only if it does not (the DMA allocation can still fail); a created queue
\* starts with write index 0 and next job id 1.
C18_NewFailsOnOverflow ==
    new_result.kind # "none" =>
        /\ new_result.capacity = UsizeOf(0) => new_result.kind = "ZeroSize"
        /\ (new_result.capacity # UsizeOf(0) /\ ~FitsTimes64(new_result.capacity))
              => new_result.kind = "OutOfBounds"
        /\ new_result.kind = "Ok" =>
              /\ new_result.capacity # UsizeOf(0)
              /\ FitsTimes64(new_result.capacity)
              /\ capacity = new_result.capacity
        /\ (fresh /\ queue = "live" /\ submits = << >>) =>
              (write_idx = 0 /\ next_job_id = << 0, 1 >>)

\* C18 witness: new(2^58) was refused because 2^58 * 64 overflows.
C18_Witness ==
    /\ new_result.capacity = << 1024, 0, 0, 0 >>
    /\ new_result.kind = "OutOfBounds"
    /\ queue = "failed"

\* C19 as stated: for every capacity N > 0 the DMA buffer backing the ring
\* has byte length exactly N * 64.
C19_RingLengthExact ==
    queue = "live" => ring_size = UsizeMul(capacity, 64).val

\* N * 64 + 4095 fits the platform word: N * 64 <= 2^64 - 4096.
RoundingFits(n) == UsizeLeq(UsizeMul(n, 64).val, << 65535, 65535, 65535, 61440 >>)

\* C19 amended: for every capacity N > 0 with N * 64 + 4095 inside the
\* platform word, the ring's byte length is N * 64 rounded up to the next
\* multiple of 4096: at least N * 64, less than N * 64 + 4096, and equal to
\* N * 64 exactly when that is a multiple of 4096 (N a multiple of 64).
C19_RingLengthPageRounded ==
    (queue = "live" /\ RoundingFits(capacity)) =>
        /\ UsizeLeq(UsizeMul(capacity, 64).val, ring_size)
        /\ UsizeLeq(ring_size, UsizeAdd(UsizeMul(capacity, 64).val, 4095).val)
        /\ ring_size[4] % 4096 = 0
        /\ (ring_size = UsizeMul(capacity, 64).val) <=> (capacity[4] % 64 = 0)

\* C19 witness: a ring of 3 descriptors (192 bytes) sits in a 4096-byte buffer.
C19_Witness ==
    /\ queue = "live"
    /\ capacity = UsizeOf(3)
    /\ ring_size = UsizeOf(4096)

(***************************************************************************)
(* The driver: main.rs run_driver and the release of its locals.           *)
(***************************************************************************)
\* Iterations of the main loop explored.
MaxLoops == 6

\* What StatusMonitor::poll can return (decode_state never yields Busy).
PolledStates == { "PoweredOff", "Booting", "Ready", "Dead", "Unknown" }

BootSuccesses == { "Ready", "Ambiguous" }

BootFailures ==
    { "FirmwareLoad", "AddressReadbackMismatch", "FirmwareDead",
      "FirmwareBadImage", "NudgeExhausted", "Timeout" }

RECURSIVE Reverse(_)
Reverse(seq) ==
    IF seq = << >> THEN << >> ELSE Append(Reverse(Tail(seq)), Head(seq))

\* Dropping the NpuDevice runs its Drop, then drops its mmio field.
Destructors(local) ==
    IF local = "npu" THEN << "npu", "mmio" >> ELSE << local >>

RECURSIVE Flatten(_)
Flatten(seqs) ==
    IF seqs = << >> THEN << >> ELSE Head(seqs) \o Flatten(Tail(seqs))

\* Mutant: the locals are released in declaration order.
TearDownInDeclarationOrder(declared) ==
    Flatten([ i \in 1..Len(declared) |-> Destructors(declared[i]) ])

\* Leaving run_driver drops its locals in reverse order of declaration.
TearDown(declared) ==
    Flatten([ i \in 1..Len(declared) |-> Destructors(Reverse(declared)[i]) ])

\* run_driver returns res: every local declared so far is dropped.
Return(res) ==
    /\ step' = "exited"
    /\ driver_result' = res
    /\ dropped' = dropped \o TearDown(locals)
    /\ locals' = << >>

\* let npu = pci::discover_npu()?;
discover_npu ==
    /\ step = "discover_npu"
    /\ \E found \in BOOLEAN :
          IF found
          THEN /\ step' = "initial_status"
               /\ locals' = Append(locals, "npu")
               /\ UNCHANGED << dropped, driver_result >>
          ELSE Return("Err")
    /\ UNCHANGED << boot_result, state, loop_count, diag_mode, test_mode,
                    target_redox >>
    /\ UNCHANGED nonDriverVars

\* StatusMonitor::new, the first poll, and the --diag / --test returns.
initial_status ==
    /\ step = "initial_status"
    /\ \E polled \in PolledStates : state' = polled
    /\ IF diag_mode \/ test_mode
       THEN /\ step' = "exited"
            /\ driver_result' = "Ok"
            /\ dropped' = dropped \o TearDown(Append(locals, "monitor"))
            /\ locals' = << >>
       ELSE /\ step' = "find_firmware"
            /\ locals' = Append(locals, "monitor")
            /\ UNCHANGED << dropped, driver_result >>
    /\ UNCHANGED << boot_result, loop_count, diag_mode, test_mode, target_redox >>
    /\ UNCHANGED nonDriverVars

\* The firmware path: --firmware (rejected when it contains ".."), else
\* find_firmware()?.
find_firmware ==
    /\ step = "find_firmware"
    /\ \E found \in BOOLEAN :
          IF found
          THEN /\ step' = "boot"
               /\ UNCHANGED << locals, dropped, driver_result >>
          ELSE Return("Err")
    /\ UNCHANGED << boot_result, state, loop_count, diag_mode, test_mode,
                    target_redox >>
    /\ UNCHANGED nonDriverVars

\* let boot = BootSequence::new(..); let (boot_result, _fw_buffer) =
\* boot.execute(&fw_path)?;
boot_execute ==
    /\ step = "boot"
    /\ \E outcome \in BootSuccesses \cup BootFailures :
          /\ boot_result' = outcome
          /\ IF outcome \in BootSuccesses
             THEN /\ step' = "queue_init"
                  /\ locals' = locals \o << "boot", "fw_buffer" >>
                  /\ UNCHANGED << dropped, driver_result >>
             ELSE /\ step' = "exited"
                  /\ driver_result' = "Err"
                  /\ dropped' = dropped \o TearDown(Append(locals, "boot"))
                  /\ locals' = << >>
    /\ UNCHANGED << state, loop_count, diag_mode, test_mode, target_redox >>
    /\ UNCHANGED nonDriverVars

\* let mut cmd_queue = CommandQueue::new(CMD_QUEUE_SIZE)?; and the two
\* writes that register the queue.
queue_init ==
    /\ step = "queue_init"
    /\ \E alloc \in AllocOutcomes :
          IF NewQueue(UsizeOf(CMD_QUEUE_SIZE), alloc, FALSE).kind = "Ok"
          THEN /\ step' = IF target_redox THEN "scheme_open" ELSE "mock_loop"
               /\ locals' = Append(locals, "cmd_queue")
               /\ UNCHANGED << dropped, driver_result >>
          ELSE Return("Err")
    /\ UNCHANGED << boot_result, state, loop_count, diag_mode, test_mode,
                    target_redox >>
    /\ UNCHANGED nonDriverVars

\* Redox: NpuScheme::new and syscall::open(":npu")?.
scheme_open ==
    /\ step = "scheme_open"
    /\ \E opened \in BOOLEAN :
          IF opened
          THEN /\ step' = "serve"
               /\ locals' = Append(locals, "scheme")
               /\ UNCHANGED << dropped, driver_result >>
          ELSE /\ step' = "exited"
               /\ driver_result' = "Err"
               /\ dropped' = dropped \o TearDown(Append(locals, "scheme"))
               /\ locals' = << >>
    /\ UNCHANGED << boot_result, state, loop_count, diag_mode, test_mode,
                    target_redox >>
    /\ UNCHANGED nonDriverVars

\* Redox: one iteration of the packet loop: read (error, end of file or a
\* packet), scheme.handle, write (error or done).
serve_packet ==
    /\ step = "serve"
    /\ \E io \in { "read_err", "eof", "write_err", "served" } :
          CASE io = "served" ->
                 /\ loop_count < MaxLoops
                 /\ loop_count' = loop_count + 1
                 /\ UNCHANGED << step, locals, dropped, driver_result >>
            [] io = "eof" ->
                 /\ Return("Ok")
                 /\ UNCHANGED loop_count
            [] OTHER ->
                 /\ Return("Err")
                 /\ UNCHANGED loop_count
    /\ UNCHANGED << boot_result, state, diag_mode, test_mode, target_redox >>
    /\ UNCHANGED nonDriverVars

\* Development host: one iteration of the heartbeat loop.
mock_loop ==
    /\ step = "mock_loop"
    /\ \E polled \in PolledStates :
          /\ state' = polled
          /\ IF polled = "Dead"
             THEN /\ Return("Err")
                  /\ UNCHANGED loop_count
             ELSE /\ loop_count < MaxLoops
                  /\ loop_count' = loop_count + 1
                  /\ UNCHANGED << step, locals, dropped, driver_result >>
    /\ UNCHANGED << boot_result, diag_mode, test_mode, target_redox >>
    /\ UNCHANGED nonDriverVars

DriverInit ==
    /\ BootStart
    /\ VadAbsent
    /\ DescAbsent
    /\ PciAbsent
    /\ SchemeAbsent
    /\ MonitorAbsent
    /\ DmaAbsent
    /\ MmioAbsent
    /\ QueueAbsent
    /\ FirmwareAbsent
    /\ DriverStart
    /\ diag_mode \in BOOLEAN
    /\ test_mode \in BOOLEAN
    /\ target_redox \in BOOLEAN

DriverNext ==
    \/ discover_npu
    \/ initial_status
    \/ find_firmware
    \/ boot_execute
    \/ queue_init
    \/ scheme_open
    \/ serve_packet
    \/ mock_loop

DriverSpec == DriverInit /\ [][DriverNext]_vars

(***************************************************************************)
(* Claims about the release order.                                         *)
(***************************************************************************)
Released(r) == \E i \in 1..Len(dropped) : dropped[i] = r

\* a is released before b, when both are.
ReleasedBefore(a, b) ==
    \A i \in 1..Len(dropped) : \A j \in 1..Len(dropped) :
        (dropped[i] = a /\ dropped[j] = b) => i < j

ExitedAfterBoot == step = "exited" /\ boot_result \in BootSuccesses

\* C20 as stated: on every exit of the driver after a successful boot the
\* resources are released in the order command ring, status monitor,
\* firmware DMA buffer, device handle and MMIO region.
C20_ReleaseOrderAsStated ==
    ExitedAfterBoot =>
        /\ ReleasedBefore("cmd_queue", "monitor")
        /\ ReleasedBefore("monitor", "fw_buffer")
        /\ ReleasedBefore("fw_buffer", "npu")
        /\ ReleasedBefore("fw_buffer", "mmio")
        /\ Released("monitor") /\ Released("fw_buffer")
        /\ Released("npu") /\ Released("mmio")

\* C20 amended: on every exit of the driver after a successful boot the
\* resources are released in the order command ring, firmware DMA buffer,
\* status monitor, device handle and MMIO region; the firmware buffer is
\* released after the command ring and before the BAR0 mapping.
C20_ReleaseOrder ==
    ExitedAfterBoot =>
        /\ ReleasedBefore("cmd_queue", "fw_buffer")
        /\ ReleasedBefore("fw_buffer", "monitor")
        /\ ReleasedBefore("monitor", "npu")
        /\ ReleasedBefore("npu", "mmio")
        /\ Released("monitor") /\ Released("fw_buffer")
        /\ Released("npu") /\ Released("mmio")
        /\ locals = << >>

\* C20 witness: the driver served packets, then left its loop with the
\* command ring alive; the ring went first, the BAR0 mapping last.
C20_Witness ==
    /\ ExitedAfterBoot
    /\ loop_count >= 1
    /\ Released("cmd_queue")
    /\ dropped[1] = "scheme"
    /\ dropped[2] = "cmd_queue"
    /\ dropped[Len(dropped)] = "mmio"

(***************************************************************************)
(* The firmware loader: dma.rs load_firmware.                              *)
(***************************************************************************)
FW_MAX_SIZE == 16 * 1024 * 1024

\* "VPU!"
FW_MAGIC == << \h56, \h50, \h55, \h21 >>

\* First bytes tried: the magic, the magic with one byte off, the magic
\* reversed, and zeros.
FileHeads ==
    { FW_MAGIC, << \h57, \h50, \h55, \h21 >>, << \h56, \h51, \h55, \h21 >>,
      << \h56, \h50, \h54, \h21 >>, << \h56, \h50, \h55, \h20 >>,
      << \h21, \h55, \h50, \h56 >>, << 0, 0, 0, 0 >> }

\* File lengths tried: around 0..4, around a page, around FW_MAX_SIZE.
FileLengths ==
    { 0, 1, 2, 3, 4, 5, DMA_ALIGNMENT, DMA_ALIGNMENT + 1, FW_MAX_SIZE - 1,
      FW_MAX_SIZE, FW_MAX_SIZE + 1, 20 * 1024 * 1024 }

Prefix(seq, n) == SubSeq(seq, 1, IF n < Len(seq) THEN n ELSE Len(seq))

\* The files at the path: those std::fs::read can read, and one it cannot.
Files ==
    { [ readable |-> TRUE, len |-> n, head |-> Prefix(h, n) ] :
        n \in FileLengths, h \in FileHeads }
    \cup { [ readable |-> FALSE, len |-> 0, head |-> << >> ] }

\* Byte k of a file: its head, then a body that is nowhere zero.
FileByte(file, k) == IF k < Len(file.head) THEN file.head[k + 1] ELSE 1 + (k % 255)

\* Mutant: the magic is compared before the size limit.
FirmwareCheckMagicFirst(len, head) ==
    IF len = 0 THEN "FirmwareEmpty"
    ELSE IF len < 4 \/ SubSeq(head, 1, 4) # FW_MAGIC THEN "FirmwareBadMagic"
    ELSE IF len > FW_MAX_SIZE THEN "FirmwareTooLarge"
    ELSE "Ok"

\* Mutant: a file of exactly FW_MAX_SIZE bytes is refused.
FirmwareCheckExclusiveMax(len, head) ==
    IF len = 0 THEN "FirmwareEmpty"
    ELSE IF len >= FW_MAX_SIZE THEN "FirmwareTooLarge"
    ELSE IF len < 4 \/ SubSeq(head, 1, 4) # FW_MAGIC THEN "FirmwareBadMagic"
    ELSE "Ok"

\* load_firmware: the checks on fw_data before any allocation.
FirmwareCheck(len, head) ==
    IF len = 0 THEN "FirmwareEmpty"
    ELSE IF len > FW_MAX_SIZE THEN "FirmwareTooLarge"
    ELSE IF len < 4 \/ SubSeq(head, 1, 4) # FW_MAGIC THEN "FirmwareBadMagic"
    ELSE "Ok"

\* load_firmware(path) on a file, with the allocator's answer.
LoadFirmware(file, alloc, checks) ==
    IF ~file.readable THEN [ NotLoaded EXCEPT !.kind = "FirmwareRead" ]
    ELSE IF FirmwareCheck(file.len, file.head) # "Ok"
         THEN [ NotLoaded EXCEPT
                  !.kind = FirmwareCheck(file.len, file.head),
                  !.actual = IF FirmwareCheck(file.len, file.head) = "FirmwareTooLarge"
                             THEN file.len ELSE 0,
                  !.max = IF FirmwareCheck(file.len, file.head) = "FirmwareTooLarge"
                          THEN FW_MAX_SIZE ELSE 0 ]
    ELSE LET buf == DmaBuffer_new(UsizeOf(file.len), alloc, checks)
         IN  IF buf.kind # "Ok" THEN [ NotLoaded EXCEPT !.kind = buf.kind ]
             ELSE IF ~write_bytes_ok(UsizeOf(0), file.len, buf.size)
                  THEN [ NotLoaded EXCEPT !.kind = "OutOfBounds",
                                          !.allocated = TRUE,
                                          !.size = UsizeVal(buf.size) ]
             ELSE [ NotLoaded EXCEPT !.kind = "Ok", !.allocated = TRUE,
                                     !.size = UsizeVal(buf.size),
                                     !.offset = 0, !.len = file.len ]

\* Byte i of the buffer load_firmware returned: the allocation is zeroed,
\* then write_bytes copies the file to offset..offset+len.
LoadedByte(i) ==
    IF fw_load.offset <= i /\ i < fw_load.offset + fw_load.len
    THEN FileByte(fw_file, i - fw_load.offset)
    ELSE 0

dma_load_firmware ==
    /\ fw_load.kind = "none"
    /\ \E alloc \in AllocOutcomes : \E checks \in BOOLEAN :
          fw_load' = LoadFirmware(fw_file, alloc, checks)
    /\ UNCHANGED fw_file
    /\ UNCHANGED nonFirmwareVars

FirmwareInit ==
    /\ BootStart
    /\ VadAbsent
    /\ DescAbsent
    /\ PciAbsent
    /\ SchemeAbsent
    /\ MonitorAbsent
    /\ DmaAbsent
    /\ MmioAbsent
    /\ QueueAbsent
    /\ DriverAbsent
    /\ fw_file \in Files
    /\ fw_load = NotLoaded

FirmwareNext == dma_load_firmware

FirmwareSpec == FirmwareInit /\ [][FirmwareNext]_vars

(***************************************************************************)
(* Claims about the firmware loader.                                       *)
(***************************************************************************)
Loaded == fw_load.kind # "none" /\ fw_file.readable

\* Length in [4, 16 MiB] and first four bytes 56 50 55 21.
ValidFirmware ==
    /\ 4 <= fw_file.len
    /\ fw_file.len <= 16777216
    /\ fw_file.head = << 86, 80, 85, 33 >>

\* Offsets at which the returned buffer is compared with the file.
SampleOffsets ==
    { i \in (0..5) \cup { fw_file.len - 1, fw_file.len, fw_load.size - 1 } :
        0 <= i /\ i < fw_load.size }

\* The buffer is page-rounded, holds the file at offset 0 and zeros after it.
HoldsFileThenZeros ==
    /\ fw_load.allocated
    /\ fw_load.size % 4096 = 0
    /\ fw_load.size >= fw_file.len
    /\ fw_load.size - fw_file.len < 4096
    /\ \A i \in SampleOffsets :
          LoadedByte(i) = IF i < fw_file.len THEN FileByte(fw_file, i) ELSE 0

\* C21 as stated: load_firmware accepts a file if and only if its length is
\* between 4 bytes and 16 MiB inclusive and its first four bytes are "VPU!";
\* on acceptance the buffer holds the file bytes at offset 0 followed by
\* zeros up to the page-rounded length.
C21_AcceptsIffValid ==
    Loaded =>
        /\ fw_load.kind = "Ok" <=> ValidFirmware
        /\ fw_load.kind = "Ok" => HoldsFileThenZeros

\* C21 amended: load_firmware accepts a file only if its length is between
\* 4 bytes and 16 MiB inclusive and its first four bytes are "VPU!"; such a
\* file is accepted unless the DMA allocation fails; on acceptance the
\* buffer holds the file bytes at offset 0 followed by zeros up to the
\* page-rounded length.
C21_AcceptsOnlyValid ==
    Loaded =>
        /\ fw_load.kind = "Ok" => ValidFirmware
        /\ ValidFirmware => fw_load.kind \in { "Ok", "SchemeOpen", "Mmap", "VirtToPhys" }
        /\ fw_load.kind = "Ok" => HoldsFileThenZeros

\* C21 witness: a file of exactly 16 MiB with the magic was accepted.
C21_Witness ==
    /\ fw_load.kind = "Ok"
    /\ fw_file.len = 16777216
    /\ fw_load.size = 16777216

\* C22: a 0-byte file is rejected with FirmwareEmpty, a file over 16 MiB
\* with FirmwareTooLarge{actual, max: 16777216} whatever its first bytes, a
\* file of 1..3 bytes or with other first four bytes with FirmwareBadMagic;
\* in every rejection no DMA buffer has been allocated.
C22_Rejections ==
    Loaded =>
        /\ fw_file.len = 0 => fw_load.kind = "FirmwareEmpty"
        /\ fw_file.len > 16777216 =>
              /\ fw_load.kind = "FirmwareTooLarge"
              /\ fw_load.actual = fw_file.len
              /\ fw_load.max = 16777216
        /\ (1 <= fw_file.len /\ fw_file.len <= 3) => fw_load.kind = "FirmwareBadMagic"
        /\ (4 <= fw_file.len /\ fw_file.len <= 16777216
               /\ fw_file.head # << 86, 80, 85, 33 >>)
              => fw_load.kind = "FirmwareBadMagic"
        /\ fw_load.kind \in { "FirmwareEmpty", "FirmwareTooLarge", "FirmwareBadMagic" }
              => (~fw_load.allocated /\ fw_load.size = 0)

\* C22 witness: a 20 MiB file whose first bytes are not the magic was
\* rejected for its size.
C22_Witness ==
    /\ fw_load.kind = "FirmwareTooLarge"
    /\ fw_load.actual = 20971520
    /\ fw_file.head # FW_MAGIC

(***************************************************************************)
(* mmio.rs: MmioRegion::read32, write32 and poll_until.                    *)
(***************************************************************************)
\* Registers of the modelled region.
MmioWords == 2

\* Longest timeout of a poll_until call, and the longest time that passes
\* between the read and the deadline check, in sleep units.
PollTimeout == 3
PollJitter == 1

\* Region lengths: a whole number of registers, and two bytes more.
MmioSizes == { UsizeOf(4 * MmioWords), UsizeOf(4 * MmioWords + 2) }

\* What a register may hold.
RegValues == { Word0, FW_STATUS_READY, WordOnes }

\* Offsets passed to read32 and write32: the register offsets up to one
\* register past the end, the last three bytes of the region, and the three
\* offsets around usize::MAX - 4.
MmioOffsets(size) ==
    { UsizeOf(4 * i) : i \in 0..(MmioWords + 1) }
        \cup { UsizeOf(UsizeVal(size) - k) : k \in 1..3 }
        \cup { << 65535, 65535, 65535, 65531 >>, << 65535, 65535, 65535, 65532 >>,
               UsizeMax }

\* Mutant: an access that ends exactly at the end of the region is refused.
AccessOkExclusive(offset, size) ==
    /\ checked_add(offset, 4).some
    /\ UsizeLess(checked_add(offset, 4).val, size)

\* read32 and write32 go on to the volatile access: offset.checked_add(4) is
\* Some(end) and not end > self.size.
access_ok(offset, size) ==
    /\ checked_add(offset, 4).some
    /\ ~UsizeLess(size, checked_add(offset, 4).val)

\* The register at self.base.add(offset).
RegIndex(offset) == UsizeVal(offset) \div 4 + 1

Read32Outcome(regs, offset, size) ==
    IF access_ok(offset, size)
    THEN [ ret |-> regs[RegIndex(offset)], accessed |-> TRUE ]
    ELSE [ ret |-> WordOnes, accessed |-> FALSE ]

Write32Outcome(regs, offset, value, size) ==
    IF access_ok(offset, size)
    THEN [ regs |-> [ regs EXCEPT ![RegIndex(offset)] = value ], accessed |-> TRUE ]
    ELSE [ regs |-> regs, accessed |-> FALSE ]

\* The calls are studied in one order: reads and writes, then one poll_until.
Polled == poll_pc # "idle" \/ poll_read.count > 0

read32 ==
    /\ ~Polled
    /\ \E offset \in MmioOffsets(mmio_size) :
          mmio_call' = [ op |-> "read32", offset |-> offset, value |-> Word0,
                         ret |-> Read32Outcome(mmio_regs, offset, mmio_size).ret,
                         accessed |-> Read32Outcome(mmio_regs, offset, mmio_size).accessed,
                         before |-> mmio_regs ]
    /\ UNCHANGED << mmio_size, mmio_regs, poll_pc, poll_args, poll_elapsed,
                    poll_read, poll_result >>
    /\ UNCHANGED nonMmioVars

write32 ==
    /\ ~Polled
    /\ \E offset \in MmioOffsets(mmio_size) : \E value \in RegValues :
          /\ mmio_regs' = Write32Outcome(mmio_regs, offset, value, mmio_size).regs
          /\ mmio_call' = [ op |-> "write32", offset |-> offset, value |-> value,
                            ret |-> Word0,
                            accessed |-> Write32Outcome(mmio_regs, offset, value,
                                                        mmio_size).accessed,
                            before |-> mmio_regs ]
    /\ UNCHANGED << mmio_size, poll_pc, poll_args, poll_elapsed, poll_read,
                    poll_result >>
    /\ UNCHANGED nonMmioVars

\* Arguments of poll_until: a register or an offset past the end, a
\* condition given by the values it accepts, a timeout and an interval.
PollCalls ==
    [ offset : { UsizeOf(0), UsizeOf(4 * MmioWords) },
      condition : { {}, { FW_STATUS_READY }, { WordOnes } },
      timeout : { 0, PollTimeout },
      interval : { 1, 2 } ]

\* Mutant: the deadline is tested before the condition.
PollStepDeadlineFirst(value, condition, waited, timeout) ==
    IF waited >= timeout THEN "Err"
    ELSE IF value \in condition THEN "Ok"
    ELSE "Sleep"

\* The body of the loop after the read: condition, then deadline, then sleep.
PollStep(value, condition, waited, timeout) ==
    IF value \in condition THEN "Ok"
    ELSE IF waited >= timeout THEN "Err"
    ELSE "Sleep"

\* let start = Instant::now()
poll_until ==
    /\ ~Polled
    /\ \E call \in PollCalls : poll_args' = call
    /\ poll_pc' = "polling"
    /\ poll_elapsed' = 0
    /\ poll_read' = NothingRead
    /\ poll_result' = NotReturned
    /\ UNCHANGED << mmio_size, mmio_regs, mmio_call >>
    /\ UNCHANGED nonMmioVars

\* One turn of the loop. The device presents a value in the register, the
\* loop reads it, and time passes before start.elapsed() is evaluated.
poll_loop ==
    /\ poll_pc = "polling"
    /\ \E shown \in RegValues : \E j \in 0..PollJitter :
          LET regs == Write32Outcome(mmio_regs, poll_args.offset, shown,
                                     mmio_size).regs
              got == Read32Outcome(regs, poll_args.offset, mmio_size)
              checked == poll_elapsed + j
              turn == PollStep(got.ret, poll_args.condition, checked,
                               poll_args.timeout)
          IN  /\ mmio_regs' = regs
              /\ mmio_call' = [ op |-> "read32", offset |-> poll_args.offset,
                                value |-> Word0, ret |-> got.ret,
                                accessed |-> got.accessed, before |-> regs ]
              /\ poll_read' = [ count |-> poll_read.count + 1, value |-> got.ret,
                                at |-> poll_elapsed, checked_at |-> checked ]
              /\ IF turn = "Sleep"
                 THEN /\ poll_elapsed' = checked + poll_args.interval
                      /\ UNCHANGED << poll_pc, poll_result >>
                 ELSE /\ poll_result' = [ kind |-> turn, value |-> got.ret ]
                      /\ poll_pc' = "idle"
                      /\ UNCHANGED poll_elapsed
    /\ UNCHANGED << mmio_size, poll_args >>
    /\ UNCHANGED nonMmioVars

MmioInit ==
    /\ BootStart
    /\ VadAbsent
    /\ DescAbsent
    /\ PciAbsent
    /\ SchemeAbsent
    /\ MonitorAbsent
    /\ DmaAbsent
    /\ QueueAbsent
    /\ DriverAbsent
    /\ FirmwareAbsent
    /\ mmio_size \in MmioSizes
    /\ mmio_regs \in [ 1..MmioWords -> RegValues ]
    /\ mmio_call = NoCall
    /\ poll_pc = "idle"
    /\ poll_args = NoPoll
    /\ poll_elapsed = 0
    /\ poll_read = NothingRead
    /\ poll_result = NotReturned

MmioNext ==
    \/ read32
    \/ write32
    \/ poll_until
    \/ poll_loop

MmioSpec == MmioInit /\ [][MmioNext]_vars

(***************************************************************************)
(* Claims about the register window.                                       *)
(***************************************************************************)
\* offset + 4 exceeds the region length, or does not fit a usize.
Beyond(offset, length) ==
    \/ UsizeAdd(offset, 4).overflow
    \/ UsizeLess(length, UsizeAdd(offset, 4).val)

\* C23: in a region of length L, read32(offset) with offset + 4 > L, or with
\* offset + 4 overflowing, returns 0xFFFF_FFFF without touching the region,
\* write32 at such an offset leaves every register as it was, and an access
\* with offset + 4 <= L is performed on the register at that offset.
C23_BoundsChecked ==
    LET c == mmio_call
    IN  /\ (c.op = "read32" /\ Beyond(c.offset, mmio_size))
              => (c.ret = WordOnes /\ ~c.accessed /\ mmio_regs = c.before)
        /\ (c.op = "write32" /\ Beyond(c.offset, mmio_size))
              => (~c.accessed /\ mmio_regs = c.before)
        /\ (c.op = "read32" /\ ~Beyond(c.offset, mmio_size))
              => (c.accessed /\ c.ret = c.before[RegIndex(c.offset)]
                  /\ mmio_regs = c.before)
        /\ (c.op = "write32" /\ ~Beyond(c.offset, mmio_size))
              => (c.accessed
                  /\ mmio_regs = [ c.before EXCEPT ![RegIndex(c.offset)] = c.value ])

\* A write32 whose offset + 4 overflows, of a value no register holds.
C23_Witness ==
    /\ mmio_call.op = "write32"
    /\ UsizeAdd(mmio_call.offset, 4).overflow
    /\ \A i \in 1..MmioWords : mmio_regs[i] # mmio_call.value

\* C24: poll_until returns Ok(v) only for a value v it read that satisfies
\* the predicate, and Err(v) only once the timeout has elapsed, v being the
\* last value read, which does not satisfy the predicate; it reads at least
\* once even with a zero timeout, and a satisfying value read after the
\* deadline still gives Ok.
C24_PollResult ==
    /\ poll_result.kind = "Ok"
          => /\ poll_read.count >= 1
             /\ poll_result.value = poll_read.value
             /\ poll_result.value \in poll_args.condition
    /\ poll_result.kind = "Err"
          => /\ poll_read.count >= 1
             /\ poll_result.value = poll_read.value
             /\ poll_result.value \notin poll_args.condition
             /\ poll_read.checked_at >= poll_args.timeout
    /\ (poll_pc = "idle" /\ poll_read.count >= 1
            /\ poll_read.value \in poll_args.condition)
          => poll_result.kind = "Ok"
    /\ (poll_pc = "polling" /\ poll_read.count >= 1)
          => (poll_read.value \notin poll_args.condition
              /\ poll_read.checked_at < poll_args.timeout)

\* Ok for a value read after a non-zero timeout had elapsed.
C24_Witness ==
    /\ poll_result.kind = "Ok"
    /\ poll_args.timeout > 0
    /\ poll_read.at >= poll_args.timeout

(***************************************************************************)
(* dma.rs: DmaBuffer::write_bytes and read_bytes.                          *)
(***************************************************************************)
\* Pages of the buffer under study.
DmaPages == 1

DmaSize == UsizeOf(DMA_ALIGNMENT * DmaPages)

\* Offsets of the calls: the start, the last byte, the end, usize::MAX.
DmaOffsets == { UsizeOf(0), UsizeOf(UsizeVal(DmaSize) - 1), DmaSize, UsizeMax }

\* The slices passed to write_bytes, and the lengths passed to read_bytes.
DataSlices == { << >>, << \hAB >>, << \hAB, \hCD >>, << 0, \hCD >> }
ReadLengths == { Len(d) : d \in DataSlices }

\* The byte at index i of the buffer.
ByteAt(bytes, i) == IF i \in DOMAIN bytes THEN bytes[i] ELSE 0

\* for i in 0..data.len() { write_volatile(dst.add(i), data[i]) }
Store(bytes, at, data) ==
    LET touched == { at + k - 1 : k \in 1..Len(data) }
        now(i) == IF i \in touched THEN data[i - at + 1] ELSE ByteAt(bytes, i)
    IN  [ i \in { j \in (DOMAIN bytes) \cup touched : now(j) # 0 } |-> now(i) ]

OutOfBounds(offset, len, size) ==
    [ offset |-> offset, len |-> len, capacity |-> size ]

\* Mutant: the part of the slice that fits is stored before the error.
WriteBytesPartial(bytes, offset, data, size) ==
    IF write_bytes_ok(offset, Len(data), size)
    THEN [ kind |-> "Ok", err |-> << >>, bytes |-> Store(bytes, UsizeVal(offset), data) ]
    ELSE [ kind |-> "OutOfBounds", err |-> OutOfBounds(offset, Len(data), size),
           bytes |-> IF UsizeLess(offset, size)
                     THEN Store(bytes, UsizeVal(offset),
                                SubSeq(data, 1, UsizeVal(size) - UsizeVal(offset)))
                     ELSE bytes ]

WriteBytes(bytes, offset, data, size) ==
    IF write_bytes_ok(offset, Len(data), size)
    THEN [ kind |-> "Ok", err |-> << >>, bytes |-> Store(bytes, UsizeVal(offset), data) ]
    ELSE [ kind |-> "OutOfBounds", err |-> OutOfBounds(offset, Len(data), size),
           bytes |-> bytes ]

ReadBytes(bytes, offset, len, size) ==
    IF write_bytes_ok(offset, len, size)
    THEN [ kind |-> "Ok", err |-> << >>,
           ret |-> [ k \in 1..len |-> ByteAt(bytes, UsizeVal(offset) + k - 1) ] ]
    ELSE [ kind |-> "OutOfBounds", err |-> OutOfBounds(offset, len, size),
           ret |-> << >> ]

\* What is kept of the call before the last one: the call, not its outcome.
Earlier(call) == [ call EXCEPT !.err = << >>, !.ret = << >>, !.before = << >> ]

write_bytes ==
    /\ \E offset \in DmaOffsets : \E data \in DataSlices :
          LET done == WriteBytes(dma_bytes, offset, data, dma_size)
          IN  /\ dma_bytes' = done.bytes
              /\ dma_call' = [ op |-> "write_bytes", offset |-> offset,
                               len |-> Len(data), data |-> data, kind |-> done.kind,
                               err |-> done.err, ret |-> << >>, before |-> dma_bytes ]
    /\ dma_prev' = Earlier(dma_call)
    /\ UNCHANGED dma_size
    /\ UNCHANGED nonDmaVars

read_bytes ==
    /\ \E offset \in DmaOffsets : \E len \in ReadLengths :
          LET done == ReadBytes(dma_bytes, offset, len, dma_size)
          IN  dma_call' = [ op |-> "read_bytes", offset |-> offset, len |-> len,
                            data |-> << >>, kind |-> done.kind, err |-> done.err,
                            ret |-> done.ret, before |-> dma_bytes ]
    /\ dma_prev' = Earlier(dma_call)
    /\ UNCHANGED << dma_size, dma_bytes >>
    /\ UNCHANGED nonDmaVars

DmaInit ==
    /\ BootStart
    /\ VadAbsent
    /\ DescAbsent
    /\ PciAbsent
    /\ SchemeAbsent
    /\ MonitorAbsent
    /\ QueueAbsent
    /\ DriverAbsent
    /\ FirmwareAbsent
    /\ MmioAbsent
    /\ dma_size = DmaSize
    /\ dma_bytes = << >>
    /\ dma_call = NoDmaCall
    /\ dma_prev = NoDmaCall

DmaNext ==
    \/ write_bytes
    \/ read_bytes

DmaSpec == DmaInit /\ [][DmaNext]_vars

(***************************************************************************)
(* Claims about the byte accessors.                                        *)
(***************************************************************************)
\* offset + len exceeds the capacity, or does not fit a usize.
Exceeds(offset, len, length) ==
    \/ UsizeAdd(offset, len).overflow
    \/ UsizeLess(length, UsizeAdd(offset, len).val)

\* C25: write_bytes and read_bytes whose offset + len exceeds the buffer
\* length, or overflows, return OutOfBounds{offset, len, capacity} and leave
\* the contents as they were; an in-range read_bytes(offset, data.len())
\* right after write_bytes(offset, data) returns data.
C25_ByteAccess ==
    /\ (dma_call.op \in { "write_bytes", "read_bytes" }
            /\ Exceeds(dma_call.offset, dma_call.len, dma_size))
          => /\ dma_call.kind = "OutOfBounds"
             /\ dma_call.err = [ offset |-> dma_call.offset, len |-> dma_call.len,
                                 capacity |-> dma_size ]
             /\ dma_bytes = dma_call.before
    /\ (dma_call.op \in { "write_bytes", "read_bytes" }
            /\ ~Exceeds(dma_call.offset, dma_call.len, dma_size))
          => dma_call.kind = "Ok"
    /\ (dma_call.op = "read_bytes" /\ dma_prev.op = "write_bytes"
            /\ dma_call.offset = dma_prev.offset /\ dma_call.len = dma_prev.len
            /\ ~Exceeds(dma_call.offset, dma_call.len, dma_size))
          => (dma_call.kind = "Ok" /\ dma_call.ret = dma_prev.data)

\* A slice that ends one byte past the end was refused after an earlier
\* write had put a byte into the buffer.
C25_Witness ==
    /\ dma_call.op = "write_bytes"
    /\ dma_call.kind = "OutOfBounds"
    /\ UsizeLess(dma_call.offset, dma_size)
    /\ dma_call.len > 1
    /\ dma_bytes # << >>

(***************************************************************************)
(* status.rs: StatusMonitor::new, poll, print_diagnostics, decode_state.   *)
(***************************************************************************)
\* Calls of poll in one behaviour.
MaxPolls == 3

\* What HOST_SS_FW_STATUS may read: the values of the boot model and a
\* second word with the same unknown code.
MonitorValues == StatusValues \cup { << \h1234, \h0001 >> }

Ready == [ kind |-> "Ready", raw |-> Word0 ]
Dead == [ kind |-> "Dead", raw |-> Word0 ]
Booting == [ kind |-> "Booting", raw |-> Word0 ]
Unknown(raw) == [ kind |-> "Unknown", raw |-> raw ]

\* StatusMonitor::decode_state
decode_state(raw) ==
    LET code == And32(raw, FW_STATUS_MASK)
    IN  CASE code = Word0 -> PoweredOff
          [] code = FW_STATUS_READY -> Ready
          [] code = FW_STATUS_DEAD -> Dead
          [] code \in { FW_STATUS_BEEF, FW_STATUS_FACE, FW_STATUS_CAFE } -> Booting
          [] OTHER -> Unknown(raw)

\* Mutant: every poll is logged.
RecordedAlways(log, last, now) == Append(log, now)

\* if state != self.last_state { self.state_changes.push((now, state)) }
Recorded(log, last, now) == IF now # last THEN Append(log, now) ELSE log

Reads(regs) == { [ op |-> "read32", reg |-> r ] : r \in regs }

\* The arm of the match in BootSequence::execute that a status word takes.
BootArm(raw) ==
    LET code == StatusCode(raw)
    IN  CASE code = FW_STATUS_READY -> "ready"
          [] code = FW_STATUS_DEAD -> "dead"
          [] code = FW_STATUS_OBAD -> "bad image"
          [] code = FW_STATUS_CAFE -> "nudge"
          [] code \in { FW_STATUS_BEEF, FW_STATUS_FACE } -> "in progress"
          [] OTHER -> IF raw = Word0 THEN "not initialised" ELSE "unknown"

\* The body of poll when HOST_SS_FW_STATUS reads raw.
PollMonitor(raw) ==
    /\ state_changes' = Recorded(state_changes, last_state, decode_state(raw))
    /\ last_state' = decode_state(raw)
    /\ mon_poll' = [ raw |-> raw, returned |-> decode_state(raw),
                     before |-> state_changes ]
    /\ mon_polls' = mon_polls + 1
    /\ mon_access' = mon_access \cup Reads({ HOST_SS_FW_STATUS })

poll ==
    /\ mon_polls < MaxPolls
    /\ \E raw \in MonitorValues : PollMonitor(raw)
    /\ UNCHANGED nonMonitorVars

print_diagnostics ==
    /\ mon_access' = mon_access
                        \cup Reads({ HOST_SS_FW_STATUS, HOST_SS_FW_VERSION,
                                     BUTTRESS_VPU_STATUS, BUTTRESS_GLOBAL_INT_STS,
                                     HOST_SS_BOOT_COUNT, HOST_SS_GEN_CTRL })
    /\ UNCHANGED << last_state, state_changes, mon_poll, mon_polls >>
    /\ UNCHANGED nonMonitorVars

\* StatusMonitor::new
MonitorNew ==
    /\ last_state = PoweredOff
    /\ state_changes = << PoweredOff >>
    /\ mon_poll = NoPollYet
    /\ mon_polls = 0
    /\ mon_access = {}

MonitorInit ==
    /\ BootStart
    /\ VadAbsent
    /\ DescAbsent
    /\ PciAbsent
    /\ SchemeAbsent
    /\ QueueAbsent
    /\ DriverAbsent
    /\ FirmwareAbsent
    /\ MmioAbsent
    /\ DmaAbsent
    /\ MonitorNew

MonitorNext ==
    \/ poll
    \/ print_diagnostics

MonitorSpec == MonitorInit /\ [][MonitorNext]_vars

(***************************************************************************)
(* Claims about the status monitor.                                        *)
(***************************************************************************)
\* C26: after any sequence of polls the state-change log starts with the
\* initial PoweredOff entry, holds no two equal consecutive states and ends
\* with the state the latest poll returned; a poll appends exactly when the
\* state it decodes differs from the one recorded before; the monitor never
\* writes a register.
C26_StateLog ==
    /\ Len(state_changes) >= 1
    /\ state_changes[1] = PoweredOff
    /\ \A i \in 1..(Len(state_changes) - 1) : state_changes[i] # state_changes[i + 1]
    /\ state_changes[Len(state_changes)] = last_state
    /\ mon_polls > 0
          => /\ state_changes[Len(state_changes)] = mon_poll.returned
             /\ state_changes =
                    IF mon_poll.returned # mon_poll.before[Len(mon_poll.before)]
                    THEN Append(mon_poll.before, mon_poll.returned)
                    ELSE mon_poll.before
    /\ \A a \in mon_access : a.op = "read32"

\* Some poll appended, a later one did not, and the diagnostics were read.
C26_Witness ==
    /\ Len(state_changes) >= 2
    /\ mon_polls >= Len(state_changes)
    /\ state_changes = mon_poll.before
    /\ Cardinality(mon_access) > 1

\* The state the upper sixteen bits of a status word stand for.
StateOfCode(raw) ==
    CASE raw[1] = \h0000 -> PoweredOff
      [] raw[1] = \hF00D -> Ready
      [] raw[1] = \hDEAD -> Dead
      [] raw[1] \in { \hCAFE, \hBEEF, \hFACE } -> Booting
      [] OTHER -> Unknown(raw)

\* The boot loop's treatment that corresponds to a state of the monitor.
TreatmentOf(s) ==
    CASE s.kind = "PoweredOff" -> { "not initialised" }
      [] s.kind = "Ready" -> { "ready" }
      [] s.kind = "Dead" -> { "dead" }
      [] s.kind = "Booting" -> { "in progress", "nudge" }
      [] OTHER -> { "unknown" }

\* C27: the state the monitor returns for a status word is the one its upper
\* sixteen bits stand for (0x0000 PoweredOff, 0xF00D Ready, 0xDEAD Dead,
\* 0xCAFE, 0xBEEF, 0xFACE Booting, anything else Unknown(raw)), and it agrees
\* with the boot loop's treatment of the same word.
C27_DecodeAgreesWithBoot ==
    mon_polls > 0
        => /\ mon_poll.returned = StateOfCode(mon_poll.raw)
           /\ BootArm(mon_poll.raw) \in TreatmentOf(mon_poll.returned)

(***************************************************************************)
(* scheme.rs: NpuScheme::new and the Scheme trait: open, read, write,      *)
(* close, fstat.                                                           *)
(***************************************************************************)
\* Handles opened in one behaviour.
MaxOpens == 2

\* Ids passed to read, write, close and fstat: those open can hand out and
\* one it never does.
SchemeIds == 0..MaxOpens

SchemePaths == { "", "status", "infer", "infer/", "model" }

Uids == { 0, 1000 }

\* Lengths of the buffer passed to write.
BufLengths == { CMD_DESC_SIZE - 1, CMD_DESC_SIZE, 2 * CMD_DESC_SIZE }

\* What HOST_SS_FW_STATUS reads when a status handle is read: the scheme is
\* served after a boot that ended with READY.
SchemeStatusValues == { FW_STATUS_READY }

\* NpuHandle, with the uid of the caller that opened it (the code does not
\* keep the uid).
StatusHandle(uid) == [ type |-> "Status", job_id |-> << >>, uid |-> uid ]
InferenceHandle(uid) == [ type |-> "Inference", job_id |-> << >>, uid |-> uid ]

Answer(kind, val) == [ kind |-> kind, val |-> val, text |-> "", job |-> << >> ]

\* Mutant: every path is refused to a caller that is not root.
OpenRootOnly(path, uid) ==
    IF uid # 0 THEN "EACCES"
    ELSE IF path \in { "", "status" } THEN "Status"
    ELSE IF path = "infer" THEN "Inference"
    ELSE "ENOENT"

\* open: the error, or the kind of handle made.
Open(path, uid) ==
    IF path = "infer" /\ uid # 0 THEN "EACCES"
    ELSE IF path \in { "", "status" } THEN "Status"
    ELSE IF path = "infer" THEN "Inference"
    ELSE "ENOENT"

\* read: the bytes copied are the text, cut to the length of the buffer.
Read(hs, id) ==
    IF id \notin DOMAIN hs THEN Answer("EBADF", 0)
    ELSE IF hs[id].type = "Status"
         THEN [ kind |-> "Ok", val |-> 0, text |-> "status", job |-> << >> ]
    ELSE IF hs[id].job_id # << >>
         THEN [ kind |-> "Ok", val |-> 0, text |-> "job", job |-> hs[id].job_id ]
    ELSE Answer("EINVAL", 0)

\* write: the submission is commented out, the handle is left as it is.
Write(hs, id, len) ==
    IF id \notin DOMAIN hs THEN Answer("EBADF", 0)
    ELSE IF hs[id].type = "Inference"
         THEN IF len < CMD_DESC_SIZE THEN Answer("EINVAL", 0) ELSE Answer("Ok", len)
    ELSE Answer("EBADF", 0)

\* Mutant: open hands out the lowest id that is not open.
NewIdLowestFree(hs, next) ==
    CHOOSE i \in 0..next : i \notin DOMAIN hs /\ \A j \in 0..(i - 1) : j \in DOMAIN hs

\* open: let id = self.next_id.
NewId(hs, next) == next

\* Mutant: closing an id that is not open succeeds.
CloseAnyId(hs, id) == Answer("Ok", 0)

Close(hs, id) ==
    IF id \notin DOMAIN hs THEN Answer("EBADF", 0) ELSE Answer("Ok", 0)

Fstat(hs, id) ==
    IF id \notin DOMAIN hs THEN Answer("EBADF", 0) ELSE Answer("Ok", 0)

Called(op, id, path, uid, len, answer) ==
    [ op |-> op, id |-> id, path |-> path, uid |-> uid, len |-> len,
      result |-> answer, before |-> handles, next_before |-> next_id,
      polls_before |-> mon_polls ]

open ==
    /\ \E path \in SchemePaths : \E uid \in Uids :
          IF Open(path, uid) \in { "EACCES", "ENOENT" }
          THEN /\ scheme_call' = Called("open", 0, path, uid, 0,
                                        Answer(Open(path, uid), 0))
               /\ UNCHANGED << handles, next_id >>
          ELSE /\ next_id < MaxOpens
               /\ handles' = [ j \in (DOMAIN handles) \cup { NewId(handles, next_id) } |->
                                 IF j = NewId(handles, next_id)
                                 THEN IF Open(path, uid) = "Status"
                                      THEN StatusHandle(uid)
                                      ELSE InferenceHandle(uid)
                                 ELSE handles[j] ]
               /\ next_id' = next_id + 1
               /\ scheme_call' = Called("open", 0, path, uid, 0,
                                        Answer("Ok", NewId(handles, next_id)))
    /\ UNCHANGED << closed, written >>
    /\ UNCHANGED nonSchemeVars

read ==
    /\ \E id \in SchemeIds :
          /\ scheme_call' = Called("read", id, "", 0, 0, Read(handles, id))
          /\ IF id \in DOMAIN handles /\ handles[id].type = "Status"
             THEN /\ mon_polls < MaxPolls
                  /\ \E raw \in SchemeStatusValues : PollMonitor(raw)
             ELSE UNCHANGED monitorVars
    /\ UNCHANGED << handles, next_id, closed, written >>
    /\ UNCHANGED nonSchemeMonitorVars

write ==
    /\ \E id \in SchemeIds : \E len \in BufLengths :
          /\ scheme_call' = Called("write", id, "", 0, len, Write(handles, id, len))
          /\ written' = IF Write(handles, id, len).kind = "Ok"
                        THEN written \cup { id } ELSE written
    /\ UNCHANGED << handles, next_id, closed >>
    /\ UNCHANGED nonSchemeVars

close ==
    /\ \E id \in SchemeIds :
          /\ scheme_call' = Called("close", id, "", 0, 0, Close(handles, id))
          /\ handles' = [ j \in (DOMAIN handles) \ { id } |-> handles[j] ]
          /\ closed' = IF id \in DOMAIN handles THEN closed \cup { id } ELSE closed
    /\ UNCHANGED << next_id, written >>
    /\ UNCHANGED nonSchemeVars

fstat ==
    /\ \E id \in SchemeIds :
          scheme_call' = Called("fstat", id, "", 0, 0, Fstat(handles, id))
    /\ UNCHANGED << handles, next_id, closed, written >>
    /\ UNCHANGED nonSchemeVars

\* The driver's queue when the scheme is created: CommandQueue::new(256),
\* nothing submitted.
QueueServing ==
    /\ queue = "live"
    /\ capacity = UsizeOf(CMD_QUEUE_SIZE)
    /\ write_idx = 0
    /\ next_job_id = FirstJobId
    /\ ring_size = UsizeOf(CMD_QUEUE_SIZE * CMD_DESC_SIZE)
    /\ ring = [ o \in {} |-> NoDescriptor ]
    /\ new_result = [ kind |-> "Ok", capacity |-> UsizeOf(CMD_QUEUE_SIZE) ]
    /\ submits = << >>
    /\ trace = << >>
    /\ fresh = TRUE
    /\ overflow_checks = FALSE

\* NpuScheme::new
SchemeInit ==
    /\ BootStart
    /\ VadAbsent
    /\ DescAbsent
    /\ PciAbsent
    /\ DriverAbsent
    /\ FirmwareAbsent
    /\ MmioAbsent
    /\ DmaAbsent
    /\ QueueServing
    /\ MonitorNew
    /\ handles = << >>
    /\ next_id = 0
    /\ scheme_call = NoSchemeCall
    /\ closed = {}
    /\ written = {}

SchemeNext ==
    \/ open
    \/ read
    \/ write
    \/ close
    \/ fstat

SchemeSpec == SchemeInit /\ [][SchemeNext]_vars

(***************************************************************************)
(* Claims about the npu: scheme.                                           *)
(***************************************************************************)
\* C28: a write of at least 64 bytes to an open inference handle submits a
\* job to the command ring (a job id is assigned and recorded on the handle,
\* the doorbell is rung), and a later read on that handle yields the result
\* notification for that job.
C28_WriteSubmits ==
    /\ (scheme_call.op = "write" /\ scheme_call.len >= 64
            /\ scheme_call.id \in DOMAIN scheme_call.before
            /\ scheme_call.before[scheme_call.id].type = "Inference")
          => /\ scheme_call.result.kind = "Ok"
             /\ handles[scheme_call.id].job_id # << >>
             /\ submits # << >>
             /\ trace # << >>
    /\ (scheme_call.op = "read" /\ scheme_call.id \in written
            /\ scheme_call.id \in DOMAIN scheme_call.before)
          => /\ scheme_call.result.kind = "Ok"
             /\ scheme_call.result.text = "job"
             /\ scheme_call.result.job = handles[scheme_call.id].job_id

\* C29: open of "infer" by a caller whose uid is not 0 fails with EACCES;
\* "" and "status" open a status handle for any uid; every other path fails
\* with ENOENT; a failed open creates no handle and uses up no handle id; no
\* inference handle exists that a non-root caller opened.
C29_OpenRules ==
    LET c == scheme_call
    IN  /\ c.op = "open"
              => /\ (c.path = "infer" /\ c.uid # 0) => c.result.kind = "EACCES"
                 /\ c.path \in { "", "status" }
                       => /\ c.result.kind = "Ok"
                          /\ c.result.val \notin DOMAIN c.before
                          /\ handles[c.result.val].type = "Status"
                 /\ c.path \notin { "", "status", "infer" }
                       => c.result.kind = "ENOENT"
                 /\ c.result.kind # "Ok"
                       => (handles = c.before /\ next_id = c.next_before)
        /\ \A id \in DOMAIN handles :
              handles[id].type = "Inference" => handles[id].uid = 0

\* A non-root open of "infer" was refused while root holds an inference
\* handle and a non-root caller a status handle.
C29_Witness ==
    /\ scheme_call.op = "open"
    /\ scheme_call.path = "infer"
    /\ scheme_call.uid # 0
    /\ scheme_call.result.kind = "EACCES"
    /\ \E i \in DOMAIN handles : handles[i].type = "Inference"
    /\ \E i \in DOMAIN handles : handles[i].type = "Status" /\ handles[i].uid # 0

\* C30: read, write, close and fstat on an id that is not open fail with
\* EBADF and change no state of the scheme; after close(id) every later
\* operation on that id, a second close included, fails with EBADF, and the
\* other handles stay usable.
C30_BadHandle ==
    LET c == scheme_call
    IN  /\ (c.op \in { "read", "write", "close", "fstat" }
                /\ c.id \notin DOMAIN c.before)
              => /\ c.result.kind = "EBADF"
                 /\ handles = c.before
                 /\ next_id = c.next_before
                 /\ mon_polls = c.polls_before
        /\ closed \cap DOMAIN handles = {}
        /\ (c.op \in { "read", "write", "close", "fstat" } /\ c.id \in closed
                /\ c.id \notin DOMAIN c.before)
              => c.result.kind = "EBADF"
        /\ (c.op = "close" /\ c.id \in DOMAIN c.before)
              => /\ c.result.kind = "Ok"
                 /\ handles = [ j \in (DOMAIN c.before) \ { c.id } |-> c.before[j] ]
        /\ (c.op \in { "read", "fstat" } /\ c.id \in DOMAIN c.before)
              => c.result.kind # "EBADF"

\* A second close of an id, refused while another handle is still open.
C30_Witness ==
    /\ scheme_call.op = "close"
    /\ scheme_call.id \in closed
    /\ scheme_call.result.kind = "EBADF"
    /\ handles # << >>

(***************************************************************************)
(* pci.rs: discover_redox and enable_bus_mastering_redox;                  *)
(* hw_mtl.rs: is_supported_device.                                         *)
(***************************************************************************)
\* Entries of pci: in one behaviour.
MaxDevices == 2

PCI_VENDOR_INTEL == \h8086
PCI_DEVICE_MTL_NPU == \h7D1D
PCI_DEVICE_ARL_NPU == \hAD1D
PCI_DEVICE_LNL_NPU == \h6467
PCI_CMD_BUS_MASTER == \h0004
PCI_CMD_MEMORY_SPACE == \h0002

SUPPORTED_DEVICES ==
    << << PCI_DEVICE_MTL_NPU, "Meteor Lake NPU" >>,
       << PCI_DEVICE_ARL_NPU, "Arrow Lake NPU" >>,
       << PCI_DEVICE_LNL_NPU, "Lunar Lake NPU" >> >>

\* Mutant: only the Meteor Lake id is looked up.
IsSupportedMtlOnly(device_id) ==
    IF device_id = PCI_DEVICE_MTL_NPU THEN "Meteor Lake NPU" ELSE "None"

\* is_supported_device: the name of the first pair with the id, or None.
is_supported_device(device_id) ==
    IF \E k \in 1..Len(SUPPORTED_DEVICES) : SUPPORTED_DEVICES[k][1] = device_id
    THEN SUPPORTED_DEVICES[CHOOSE k \in 1..Len(SUPPORTED_DEVICES) :
                               /\ SUPPORTED_DEVICES[k][1] = device_id
                               /\ \A j \in 1..(k - 1) :
                                     SUPPORTED_DEVICES[j][1] # device_id][2]
    ELSE "None"

RECURSIVE BitOr16(_, _, _)
BitOr16(a, b, n) ==
    IF n = 0 THEN 0
    ELSE (IF a % 2 = 1 \/ b % 2 = 1 THEN 1 ELSE 0)
         + 2 * BitOr16(a \div 2, b \div 2, n - 1)

\* Mutant: only the bus-master bit is set.
NewCmdBusMasterOnly(cmd) == BitOr16(cmd, PCI_CMD_BUS_MASTER, 16)

\* let new_cmd = cmd | PCI_CMD_BUS_MASTER | PCI_CMD_MEMORY_SPACE
new_cmd(cmd) ==
    BitOr16(BitOr16(cmd, PCI_CMD_BUS_MASTER, 16), PCI_CMD_MEMORY_SPACE, 16)

\* An entry of pci: whether the directory entry is read, whether its config
\* file is read, the length of the config bytes, the three words at bytes
\* 0..6, whether the config file can be written, and what bar0 does.
Entry(listed, readable, len, vendor, device, cmd, writable, bar) ==
    [ listed |-> listed, readable |-> readable, len |-> len, vendor |-> vendor,
      device |-> device, cmd |-> cmd, writable |-> writable, bar |-> bar ]

PciEntries ==
    { Entry(TRUE, TRUE, 64, \h10DE, PCI_DEVICE_MTL_NPU, \h0007, TRUE, "ok"),
      Entry(TRUE, TRUE, 64, PCI_VENDOR_INTEL, \h1234, \h0000, TRUE, "ok"),
      Entry(TRUE, TRUE, 64, PCI_VENDOR_INTEL, PCI_DEVICE_MTL_NPU, \h0000, TRUE, "ok"),
      Entry(TRUE, TRUE, 64, PCI_VENDOR_INTEL, PCI_DEVICE_ARL_NPU, \h0006, FALSE, "ok"),
      Entry(TRUE, TRUE, 6, PCI_VENDOR_INTEL, PCI_DEVICE_LNL_NPU, \hF401, TRUE, "ok"),
      Entry(TRUE, TRUE, 5, PCI_VENDOR_INTEL, PCI_DEVICE_MTL_NPU, \h0000, TRUE, "ok"),
      Entry(TRUE, TRUE, 64, PCI_VENDOR_INTEL, PCI_DEVICE_MTL_NPU, \h0002, FALSE, "ok"),
      Entry(TRUE, TRUE, 64, PCI_VENDOR_INTEL, PCI_DEVICE_ARL_NPU, \h0004, TRUE, "zero"),
      Entry(TRUE, TRUE, 64, PCI_VENDOR_INTEL, PCI_DEVICE_LNL_NPU, \h0007, TRUE, "mmap"),
      Entry(TRUE, TRUE, 3, PCI_VENDOR_INTEL, PCI_DEVICE_MTL_NPU, \h0000, TRUE, "ok"),
      Entry(TRUE, FALSE, 0, PCI_VENDOR_INTEL, PCI_DEVICE_MTL_NPU, \h0000, TRUE, "ok"),
      Entry(FALSE, FALSE, 0, 0, 0, 0, FALSE, "open") }

RECURSIVE Buses(_)
Buses(n) ==
    IF n = 0 THEN { << >> }
    ELSE Buses(n - 1)
            \cup { Append(b, e) : b \in { c \in Buses(n - 1) : Len(c) = n - 1 },
                                  e \in PciEntries }

Failed(kind) == [ kind |-> kind, index |-> 0, name |-> "", writes |-> << >> ]

\* enable_bus_mastering_redox for entry i, then map_bar0_redox.
Accept(e, i) ==
    IF e.len < 6 THEN Failed("ConfigWrite")
    ELSE IF new_cmd(e.cmd) # e.cmd /\ ~e.writable THEN Failed("ConfigWrite")
    ELSE LET stored == IF new_cmd(e.cmd) # e.cmd
                        THEN << [ index |-> i, offset |-> 4, value |-> new_cmd(e.cmd) ] >>
                        ELSE << >>
         IN  CASE e.bar = "open" -> [ Failed("BarOpen") EXCEPT !.writes = stored ]
               [] e.bar = "zero" -> [ Failed("BarZeroSize") EXCEPT !.writes = stored ]
               [] e.bar = "mmap" -> [ Failed("BarMmap") EXCEPT !.writes = stored ]
               [] OTHER -> [ kind |-> "Ok", index |-> i,
                             name |-> is_supported_device(e.device),
                             writes |-> stored ]

\* The loop of discover_redox from entry i on.
RECURSIVE Scan(_, _)
Scan(bus, i) ==
    IF i > Len(bus) THEN Failed("DeviceNotFound")
    ELSE IF ~bus[i].listed THEN Failed("SchemeFailed")
    ELSE IF ~bus[i].readable \/ bus[i].len < 4 THEN Scan(bus, i + 1)
    ELSE IF bus[i].vendor # PCI_VENDOR_INTEL THEN Scan(bus, i + 1)
    ELSE IF is_supported_device(bus[i].device) = "None" THEN Scan(bus, i + 1)
    ELSE Accept(bus[i], i)

discover_redox ==
    /\ pci_result.kind = "none"
    /\ LET found == IF pci_listing THEN Scan(pci_bus, 1) ELSE Failed("SchemeFailed")
       IN  /\ pci_result' = [ kind |-> found.kind, index |-> found.index,
                              name |-> found.name ]
           /\ pci_writes' = found.writes
    /\ UNCHANGED << pci_listing, pci_bus >>
    /\ UNCHANGED nonPciVars

PciInit ==
    /\ BootStart
    /\ VadAbsent
    /\ DescAbsent
    /\ QueueAbsent
    /\ DriverAbsent
    /\ FirmwareAbsent
    /\ MmioAbsent
    /\ DmaAbsent
    /\ MonitorAbsent
    /\ SchemeAbsent
    /\ pci_listing \in BOOLEAN
    /\ pci_bus \in Buses(MaxDevices)
    /\ pci_result = NotDiscovered
    /\ pci_writes = << >>

PciNext == discover_redox

PciSpec == PciInit /\ [][PciNext]_vars

(***************************************************************************)
(* Claims about PCI discovery.                                             *)
(***************************************************************************)
SupportedIds == { \h7D1D, \hAD1D, \h6467 }

\* Device ids looked up: the three supported ones and their neighbours.
LookedUp == SupportedIds \cup { 0, \h7D1C, \h7D1E, \h8086, \hFFFF }

\* The entries whose configuration header names a supported Intel NPU.
Matching ==
    { i \in 1..Len(pci_bus) :
        /\ pci_bus[i].listed /\ pci_bus[i].readable /\ pci_bus[i].len >= 4
        /\ pci_bus[i].vendor = \h8086
        /\ pci_bus[i].device \in SupportedIds }

FirstMatching == CHOOSE i \in Matching : \A j \in Matching : i <= j

Discovered == pci_result.kind # "none"

\* is_supported_device names exactly the three ids, and writes go only to
\* the first matching entry.
SupportedAndSkipped ==
    /\ \A id \in LookedUp : (is_supported_device(id) # "None") <=> (id \in SupportedIds)
    /\ \A k \in 1..Len(pci_writes) :
          Matching # {} /\ pci_writes[k].index = FirstMatching

\* C31 as stated: discovery returns the first enumerated device with vendor
\* 0x8086 and a supported device id, skips the others without a
\* configuration write, and fails with DeviceNotFound when none matches.
C31_FirstMatchReturned ==
    Discovered =>
        /\ SupportedAndSkipped
        /\ Matching # {}
              => (pci_result.kind = "Ok" /\ pci_result.index = FirstMatching)
        /\ Matching = {} => pci_result.kind = "DeviceNotFound"

\* The listing, and the entries before the first match, were read.
ListedUpTo(n) == pci_listing /\ \A j \in 1..n : pci_bus[j].listed

\* C31 (amended): a device that discovery returns is the first matching one;
\* when the bus is listed without error up to it, the result is that device
\* or the error of enabling or mapping it, never a later device; when the
\* whole bus is listed and nothing matches, the result is DeviceNotFound;
\* the others are skipped without a configuration write.
C31_FirstMatchOrItsError ==
    Discovered =>
        /\ SupportedAndSkipped
        /\ pci_result.kind = "Ok"
              => (Matching # {} /\ pci_result.index = FirstMatching)
        /\ (Matching # {} /\ ListedUpTo(FirstMatching))
              => \/ pci_result.kind = "Ok" /\ pci_result.index = FirstMatching
                 \/ pci_result.kind \in { "ConfigWrite", "BarOpen", "BarZeroSize",
                                          "BarMmap" }
        /\ (Matching = {} /\ ListedUpTo(Len(pci_bus)))
              => pci_result.kind = "DeviceNotFound"

\* The second entry is returned after a non-matching first one.
C31_Witness ==
    /\ pci_result.kind = "Ok"
    /\ pci_result.index = 2
    /\ pci_bus[1].vendor = \h8086
    /\ pci_writes # << >>

Bit(v, b) == (v \div (2 ^ b)) % 2

\* The entry that enable_bus_mastering_redox was called for.
Enabled == Discovered /\ Matching # {} /\ ListedUpTo(FirstMatching)

\* C32: the command word written for the accepted device is the word read
\* with bits 1 and 2 set and every other bit kept; the write is made only if
\* that changes the word; a header shorter than 6 bytes is an error with no
\* write.
C32_CommandWord ==
    Enabled =>
        LET e == pci_bus[FirstMatching]
        IN  /\ Len(pci_writes) <= 1
            /\ \A k \in 1..Len(pci_writes) :
                  /\ pci_writes[k].index = FirstMatching
                  /\ pci_writes[k].offset = 4
                  /\ \A b \in 0..15 :
                        Bit(pci_writes[k].value, b)
                            = IF b \in { 1, 2 } THEN 1 ELSE Bit(e.cmd, b)
                  /\ pci_writes[k].value # e.cmd
            /\ (e.len >= 6 /\ Bit(e.cmd, 1) = 1 /\ Bit(e.cmd, 2) = 1)
                  => pci_writes = << >>
            /\ (pci_result.kind = "Ok" /\ (Bit(e.cmd, 1) = 0 \/ Bit(e.cmd, 2) = 0))
                  => pci_writes # << >>
            /\ e.len < 6 => (pci_result.kind = "ConfigWrite" /\ pci_writes = << >>)

\* A command word with other bits set was completed and written.
C32_Witness ==
    /\ pci_result.kind = "Ok"
    /\ pci_writes # << >>
    /\ pci_writes[1].value = \hF407

(***************************************************************************)
(* inference.rs: CommandDescriptor::new_inference and to_bytes.            *)
(***************************************************************************)
\* Buffers of 1 MiB, 128 KiB and 256 KiB, one above 4 GiB in physical
\* memory, and one of 4 GiB.
DescBuffers ==
    { [ phys |-> << 0, 0, \h0010, \h0000 >>, size |-> << 0, 0, \h0010, 0 >> ],
      [ phys |-> << 0, 0, \h7FFF, \h1000 >>, size |-> << 0, 0, \h0002, 0 >> ],
      [ phys |-> << \h0123, \h4567, \h89AB, \hC000 >>, size |-> << 0, 0, \h0004, 0 >> ],
      [ phys |-> << 0, 1, \h2345, \h6000 >>, size |-> << 0, 1, 0, 0 >> ] }

JobIds == { Word0, Word1, << \h0000, \h0100 >>, << \h1234, \h5678 >>, WordOnes }

\* The four bytes of a u32 in memory on the little-endian targets of the
\* driver.
Bytes32(w) == << w[2] % 256, w[2] \div 256, w[1] % 256, w[1] \div 256 >>

\* The fields of CommandDescriptor in declaration order (repr(C, packed)).
Fields(d) ==
    << d.opcode, d.flags, d.model_addr_lo, d.model_addr_hi, d.model_size,
       d.input_addr_lo, d.input_addr_hi, d.input_size, d.output_addr_lo,
       d.output_addr_hi, d.output_size, d.job_id, Word0, Word0, Word0, Word0 >>

\* Mutant: the job id is stored after the reserved words.
ToBytesJobIdLast(d) ==
    [ k \in 1..(4 * Len(Fields(d))) |->
        LET f == ((k - 1) \div 4) + 1
            g == IF f = 12 THEN 16 ELSE IF f = 16 THEN 12 ELSE f
        IN  Bytes32(Fields(d)[g])[((k - 1) % 4) + 1] ]

\* to_bytes: transmute_copy of the packed struct.
to_bytes(d) ==
    [ k \in 1..(4 * Len(Fields(d))) |->
        Bytes32(Fields(d)[((k - 1) \div 4) + 1])[((k - 1) % 4) + 1] ]

serialise ==
    /\ desc_made = "none"
    /\ LET made == new_inference(desc_args.job_id, desc_args.model, desc_args.input,
                                 desc_args.output)
       IN  /\ desc_made' = IF made.some THEN "Some" ELSE "None"
           /\ desc_bytes' = IF made.some THEN to_bytes(made.val) ELSE << >>
    /\ UNCHANGED desc_args
    /\ UNCHANGED nonDescVars

DescInit ==
    /\ BootStart
    /\ VadAbsent
    /\ QueueAbsent
    /\ DriverAbsent
    /\ FirmwareAbsent
    /\ MmioAbsent
    /\ DmaAbsent
    /\ MonitorAbsent
    /\ SchemeAbsent
    /\ PciAbsent
    /\ desc_args \in [ job_id : JobIds, model : DescBuffers, input : DescBuffers,
                       output : DescBuffers ]
    /\ desc_made = "none"
    /\ desc_bytes = << >>

DescNext == serialise

DescSpec == DescInit /\ [][DescNext]_vars

(***************************************************************************)
(* Claims about the command descriptor.                                    *)
(***************************************************************************)
\* Byte k (0..3) of the little-endian form of a 32-bit word.
LittleEndianByte(w, k) ==
    IF k < 2 THEN (w[2] \div (256 ^ k)) % 256
    ELSE (w[1] \div (256 ^ (k - 2))) % 256

\* Bytes at..at+4 of the descriptor hold w in little-endian order.
HoldsWord(at, w) ==
    \A k \in 0..3 : desc_bytes[at + k + 1] = LittleEndianByte(w, k)

\* C33: a command descriptor serialises to exactly 64 little-endian bytes:
\* opcode 01 00 00 00 at 0..4, zero flags at 4..8, address low, address high
\* and length of the model, input and output buffers at 8..44, the job id at
\* 44..48, and zeros at 48..64.
C33_DescriptorLayout ==
    desc_made = "Some" =>
        /\ Len(desc_bytes) = 64
        /\ \A k \in 1..64 : desc_bytes[k] \in 0..255
        /\ SubSeq(desc_bytes, 1, 4) = << 1, 0, 0, 0 >>
        /\ SubSeq(desc_bytes, 5, 8) = << 0, 0, 0, 0 >>
        /\ HoldsWord(8, << desc_args.model.phys[3], desc_args.model.phys[4] >>)
        /\ HoldsWord(12, << desc_args.model.phys[1], desc_args.model.phys[2] >>)
        /\ HoldsWord(16, << desc_args.model.size[3], desc_args.model.size[4] >>)
        /\ HoldsWord(20, << desc_args.input.phys[3], desc_args.input.phys[4] >>)
        /\ HoldsWord(24, << desc_args.input.phys[1], desc_args.input.phys[2] >>)
        /\ HoldsWord(28, << desc_args.input.size[3], desc_args.input.size[4] >>)
        /\ HoldsWord(32, << desc_args.output.phys[3], desc_args.output.phys[4] >>)
        /\ HoldsWord(36, << desc_args.output.phys[1], desc_args.output.phys[2] >>)
        /\ HoldsWord(40, << desc_args.output.size[3], desc_args.output.size[4] >>)
        /\ HoldsWord(44, desc_args.job_id)
        /\ \A k \in 49..64 : desc_bytes[k] = 0

\* The descriptor of job 0x12345678 over buffers of 1 MiB, 128 KiB, 256 KiB.
C33_Witness ==
    /\ desc_made = "Some"
    /\ SubSeq(desc_bytes, 45, 48) = << \h78, \h56, \h34, \h12 >>
    /\ desc_args.model.size = << 0, 0, \h0010, 0 >>
    /\ desc_args.input.size = << 0, 0, \h0002, 0 >>
    /\ desc_args.output.size = << 0, 0, \h0004, 0 >>

(***************************************************************************)
(* eva-daemon vad.rs: VAD::new, is_speech, reset.                          *)
(***************************************************************************)
MaxFrames == 12

\* Thresholds and frame counts of VAD::new; samples are in hundredths of
\* full scale, so the energy threshold 0.02 is 2 and its square 4.
energy_threshold_sq == 4
zcr_threshold_tenths == 1
silence_frames == 10
speech_frames == 3

\* Frames of samples: digital silence, an empty frame, a loud alternating
\* frame, a loud constant frame and a faint alternating frame.
Frames ==
    { << 0, 0, 0, 0 >>,
      << >>,
      << 50, -50, 50, -50 >>,
      << 50, 50, 50, 50 >>,
      << 1, -1, 1, -1 >> }

RECURSIVE SumSquares(_)
SumSquares(samples) ==
    IF samples = << >> THEN 0
    ELSE Head(samples) * Head(samples) + SumSquares(Tail(samples))

\* calculate_energy(samples) > energy_threshold, on the squares:
\* sqrt(sum / len) > t  iff  sum > t * t * len.
EnergyAbove(samples) ==
    IF samples = << >> THEN FALSE
    ELSE SumSquares(samples) > energy_threshold_sq * Len(samples)

Crossings(samples) ==
    Cardinality({ i \in 2..Len(samples) :
                    \/ samples[i] >= 0 /\ samples[i - 1] < 0
                    \/ samples[i] < 0 /\ samples[i - 1] >= 0 })

\* zero_crossing_rate(samples) > zcr_threshold:
\* crossings / len > 0.1  iff  10 * crossings > len.
ZcrAbove(samples) ==
    IF Len(samples) < 2 THEN FALSE
    ELSE 10 * Crossings(samples) > zcr_threshold_tenths * Len(samples)

IsActive(samples) == EnergyAbove(samples) /\ ZcrAbove(samples)

\* A frame whose energy and zero-crossing rate are both below the thresholds.
Silent(samples) == ~EnergyAbove(samples) /\ ~ZcrAbove(samples)

\* is_speech: the counters after the call and the value returned.
IsSpeech(samples, silence, speech) ==
    IF IsActive(samples)
    THEN [ silence |-> 0, speech |-> speech + 1,
           returned |-> speech + 1 >= speech_frames ]
    ELSE [ silence |-> silence + 1, speech |-> 0,
           returned |-> silence + 1 < silence_frames ]

is_speech ==
    /\ vad_returned # "absent"
    /\ vad_frames < MaxFrames
    /\ \E samples \in Frames :
        LET after == IsSpeech(samples, current_silence, current_speech)
        IN  /\ current_silence' = after.silence
            /\ current_speech' = after.speech
            /\ vad_returned' = IF after.returned THEN "true" ELSE "false"
            /\ vad_only_silent' = (vad_only_silent /\ Silent(samples))
    /\ vad_frames' = vad_frames + 1
    /\ UNCHANGED nonVadVars

reset ==
    /\ vad_returned # "absent"
    /\ vad_frames > 0
    /\ current_silence' = 0
    /\ current_speech' = 0
    /\ vad_only_silent' = FALSE
    /\ UNCHANGED << vad_frames, vad_returned >>
    /\ UNCHANGED nonVadVars

\* VAD::new.
VadInit ==
    /\ BootStart
    /\ QueueAbsent
    /\ DriverAbsent
    /\ FirmwareAbsent
    /\ MmioAbsent
    /\ DmaAbsent
    /\ MonitorAbsent
    /\ SchemeAbsent
    /\ PciAbsent
    /\ DescAbsent
    /\ current_silence = 0
    /\ current_speech = 0
    /\ vad_frames = 0
    /\ vad_only_silent = TRUE
    /\ vad_returned = "none"

VadNext == is_speech \/ reset

VadSpec == VadInit /\ [][VadNext]_vars

(***************************************************************************)
(* Claims about the voice activity detector.                               *)
(***************************************************************************)
\* C34: starting from a fresh VAD, is_speech returns false for every frame
\* of a stream that consists only of silent frames, for any number of such
\* frames.
C34_SilenceIsNotSpeech ==
    (vad_only_silent /\ vad_frames > 0) => vad_returned = "false"

(***************************************************************************)
(* Claims about the timing of the boot status loop.                        *)
(***************************************************************************)
Nudges == DoorbellRings - 1

RECURSIVE NudgeSleepTotal(_)
\* The time slept by the first n nudges when every sleep is punctual.
NudgeSleepTotal(n) ==
    IF n = 0 THEN 0 ELSE NudgeSleepTotal(n - 1) + NudgeSleepMs(n)

\* Every status poll so far read 0xCAFE (and every sleep was punctual): the
\* latest poll read 0xCAFE and the loop's clock shows the nudge sleeps and
\* nothing else. Every other poll either ends the loop or sleeps.
OnlyCafePolled ==
    /\ LoopEntered
    /\ StatusCode(raw_status) = FW_STATUS_CAFE
    /\ cafe_polls > 0
    /\ elapsed = NudgeSleepTotal(Nudges)

\* C35: if the status register reads 0xCAFE on every poll of the status
\* loop, the boot fails with NudgeExhausted after exactly 5 nudges: the nudge
\* cap is reached before the 5000 ms deadline turns the failure into Timeout.
C35_CafeEndsNudgeExhausted ==
    (Returned /\ OnlyCafePolled) =>
        /\ result.kind = "NudgeExhausted"
        /\ Nudges = 5

\* C36: whenever the boot fails with Timeout{last_status}, the upper 16 bits
\* of last_status are not 0xF00D: a device whose status register reads READY
\* at the final status read is never reported as timed out.
C36_TimeoutNeverReady ==
    result.kind = "Timeout" => result.data[1] # \hF00D

\* The latest step of the status loop was a poll that slept.
LoopSlept == pc = "status_loop" /\ elapsed > 0

\* C37: in the status loop every status word whose upper 16 bits are 0x0000
\* is followed by a 50 ms sleep, words with upper bits 0xBEEF or 0xFACE by a
\* 100 ms sleep, and words with any other unrecognised upper half by a
\* 100 ms sleep, before the next status read.
C37_SleepByUpperHalf ==
    LoopSlept =>
        /\ raw_status[1] = \h0000 => slept_ms = 50
        /\ raw_status[1] \in { \hBEEF, \hFACE } => slept_ms = 100
        /\ raw_status[1] \notin { \h0000, \hBEEF, \hFACE, \hF00D, \hDEAD, \h0BAD,
                                  \hCAFE } => slept_ms = 100

\* C38: the delay after the initial doorbell ring is 300 ms, and after the
\* n-th nudge (n = 1..5) the loop sleeps 300 x (n + 1) ms before the next
\* status read: 600, 900, 1200, 1500 and 1800 ms.
C38_BackoffSchedule ==
    [][ /\ (pc = "trigger_and_wait" /\ pc' = "status_loop") =>
              /\ DoorbellRings' = 1
              /\ slept_ms' = 300
        /\ (pc = "status_loop" /\ DoorbellRings' = DoorbellRings + 1) =>
              /\ Nudges' \in 1..5
              /\ nudge_count' = Nudges'
              /\ slept_ms' = 300 * (Nudges' + 1)
              /\ slept_ms' = << 600, 900, 1200, 1500, 1800 >>[Nudges']
              /\ elapsed' >= elapsed + slept_ms'
              /\ pc' = "status_loop" ]_vars

\* C38 witness: the fifth nudge has been made and the loop slept 1800 ms.
C38_Witness ==
    /\ pc = "status_loop"
    /\ Nudges = 5
    /\ slept_ms = 1800
    /\ elapsed >= 6000

(***************************************************************************)
(* boot.rs: execute with the firmware staged from a file by                *)
(* dma::load_firmware, up to the first doorbell ring.                      *)
(***************************************************************************)
nonBootFirmwareVars ==
    << queueVars, driverVars, mmioVars, dmaVars, monitorVars, schemeVars, pciVars,
       descVars, vadVars >>

\* Mutant: a bad magic is logged and the boot goes on.
StagingOutcomeMagicIgnored(kind) ==
    IF kind \in { "Ok", "FirmwareBadMagic" }
    THEN [pc |-> "set_firmware_address", result |-> NoResult]
    ELSE [pc |-> "done", result |-> [kind |-> "FirmwareLoad", data |-> Word0]]

\* load_firmware(fw_path)?: Err(e) of dma::load_firmware becomes
\* FirmwareLoad(e) and execute returns it.
StagingOutcome(kind) ==
    IF kind = "Ok"
    THEN [pc |-> "set_firmware_address", result |-> NoResult]
    ELSE [pc |-> "done", result |-> [kind |-> "FirmwareLoad", data |-> Word0]]

load_firmware_file ==
    /\ pc = "load_firmware"
    /\ fw_load.kind = "none"
    /\ \E alloc \in AllocOutcomes : \E checks \in BOOLEAN :
          LET loaded == LoadFirmware(fw_file, alloc, checks)
          IN  /\ fw_load' = loaded
              /\ pc' = StagingOutcome(loaded.kind).pc
              /\ result' = StagingOutcome(loaded.kind).result
              /\ IF loaded.kind = "Ok"
                 THEN /\ \E p \in PhysAddrs : fw_phys' = p
                      /\ fw_buffer' = "alive"
                 ELSE UNCHANGED << fw_buffer, fw_phys >>
    /\ UNCHANGED << mmio_writes, readback, buttress_ok, nudge_count, elapsed,
                    raw_status, cafe_polls, final_read, diag_dumps, slept_ms >>
    /\ UNCHANGED fw_file
    /\ UNCHANGED nonBootFirmwareVars

StagedBootInit ==
    /\ BootStart
    /\ QueueAbsent
    /\ DriverAbsent
    /\ MmioAbsent
    /\ DmaAbsent
    /\ MonitorAbsent
    /\ SchemeAbsent
    /\ PciAbsent
    /\ DescAbsent
    /\ VadAbsent
    /\ fw_file \in Files
    /\ fw_load = NotLoaded

StagedBootNext ==
    \/ power_up
    \/ load_firmware_file
    \/ set_firmware_address
    \/ trigger_and_wait

StagedBootSpec == StagedBootInit /\ [][StagedBootNext]_vars

StagingFailed == fw_load.kind \notin { "none", "Ok" }

\* C39: if firmware staging fails (unreadable, empty, oversized or bad-magic
\* file), execute returns FirmwareLoad(error) after the power-up phase and
\* performs no write to the load-address registers, the interrupt masks or
\* the doorbell.
C39_StagingFailureStops ==
    /\ StagingFailed =>
          /\ Returned
          /\ result.kind = "FirmwareLoad"
          /\ mmio_writes = PowerUpWrites
          /\ ~AddressPublished
          /\ WritesTo(BUTTRESS_GLOBAL_INT_MASK) = 0
          /\ WritesTo(IPC_INT_MASK) = 0
          /\ DoorbellRings = 0
    /\ ( /\ pc # "power_up"
         /\ \/ ~fw_file.readable
            \/ fw_file.len = 0
            \/ fw_file.len > 16 * 1024 * 1024
            \/ Len(fw_file.head) < 4
            \/ fw_file.head # << \h56, \h50, \h55, \h21 >> )
       => (pc = "load_firmware" \/ StagingFailed)

\* C39 witness: a 4097-byte file that starts with "WPU!" was refused after
\* the three power-up writes.
C39_Witness ==
    /\ fw_file = [ readable |-> TRUE, len |-> 4097, head |-> << \h57, \h50, \h55, \h21 >> ]
    /\ fw_load.kind = "FirmwareBadMagic"
    /\ result.kind = "FirmwareLoad"
    /\ Len(mmio_writes) = 3

(***************************************************************************)
(* Claims about the ids of the scheme.                                     *)
(***************************************************************************)
\* C40: within one scheme instance every successful open returns an id that
\* was never returned before: ids are handed out as 0, 1, 2, ... in order of
\* successful opens and an id is not reused after its handle is closed, so
\* an operation on a stale id can never reach a handle opened later.
C40_FreshIds ==
    LET c == scheme_call
        opened == c.op = "open" /\ c.result.kind = "Ok"
    IN  /\ opened =>
              /\ c.result.val = c.next_before
              /\ next_id = c.next_before + 1
              /\ c.result.val \notin DOMAIN c.before
              /\ c.result.val \notin closed
              /\ DOMAIN handles = (DOMAIN c.before) \cup { c.result.val }
              /\ \A j \in DOMAIN c.before : handles[j] = c.before[j]
        /\ (c.op # "none" /\ ~opened) => next_id = c.next_before
        /\ (DOMAIN handles) \cup closed = 0..(next_id - 1)
        /\ (DOMAIN handles) \cap closed = {}
        /\ (c.op \in { "read", "write", "close", "fstat" } /\ c.id \in closed
                /\ c.id \notin DOMAIN c.before)
              => /\ c.result.kind = "EBADF"
                 /\ handles = c.before

\* C40 witness: id 0 was opened and closed, and the next open returned 1.
C40_Witness ==
    /\ scheme_call.op = "open"
    /\ scheme_call.result = Answer("Ok", 1)
    /\ closed = { 0 }
    /\ DOMAIN handles = { 1 }

====
